---- MODULE Spec2Model ----
(***************************************************************************)
(* Fantasy-football ingestion pipeline (src/ingestion.py) over the SQLite  *)
(* store of src/database.py.                                               *)
(*                                                                         *)
(* A table is a set of rows (records); `id` is the INTEGER PRIMARY KEY.    *)
(* Display names are modelled by their rank in the collating order         *)
(* ("A" = 1, "B" = 2, ...); fantasy scores are integers.                   *)
(***************************************************************************)
EXTENDS Integers, Sequences, FiniteSets, TLC

VARIABLES
    nfl_teams,      \* table nfl_teams
    games,          \* table games
    fantasy_teams,  \* table fantasy_teams
    players,        \* table players
    draft_picks,    \* table draft_picks
    rosters,        \* table rosters
    rank_columns,   \* the players table of the opened file has the rank columns
    plan,           \* row order of a SELECT without ORDER BY on players
    world,          \* what the external source and the input files hold
    pc,             \* position of the caller's current run_full_ingestion
    run,            \* arguments of the current / last run
    log,            \* steps entered and fetches issued by the current run
    before,         \* the store when the current run started
    last            \* the sub-step call that ended last (unit specifications)

tables == <<nfl_teams, games, fantasy_teams, players, draft_picks, rosters>>
env    == <<rank_columns, plan, world>>
vars   == <<nfl_teams, games, fantasy_teams, players, draft_picks, rosters,
            rank_columns, plan, world, pc, run, log, before, last>>

----------------------------------------------------------------------------
(* Bounds of the model *)

\* largest surrogate id a table may hand out
MaxId == 6
\* external player ids offered by the source: 1..MaxExtPlayer
MaxExtPlayer == 3
\* draft picks in one payload
MaxPicks == 2
\* external players of the payloads the ranking operations are called with
MaxRanked == 4
\* games listed under one team entry of a teams file
MaxGames == 1
\* direct calls of load_rosters in one behaviour
MaxRosterLoads == 1
\* direct calls of _load_player_stats in one behaviour
MaxOverwrites == 1

----------------------------------------------------------------------------
(* Program constants *)

\* SQL NULL / Python None in a nullable column
NULL == -1
\* the season whose roster load also attaches projected ranks
ProjectedSeason == 2024

\* rows of the ranking sample written to the log
SampleLimit == 5

Seasons == {2023, ProjectedSeason}

----------------------------------------------------------------------------
(* Generic helpers *)

Max(S) == CHOOSE x \in S : \A y \in S : y <= x
\* rowid of a new row: one more than the largest rowid present
NextId(tbl) == IF tbl = {} THEN 1 ELSE Max({r.id : r \in tbl}) + 1

----------------------------------------------------------------------------
(* Step 1: load_teams_data *)

RECURSIVE InsertOrIgnoreNflTeams(_, _)
\* INSERT OR IGNORE INTO nfl_teams, one parameter tuple after the other: a row
\* whose id (PRIMARY KEY) or abbreviation (UNIQUE) is already stored is skipped
InsertOrIgnoreNflTeams(tbl, rows) ==
    IF rows = <<>> THEN tbl
    ELSE LET r == Head(rows)
             clash == \E t \in tbl : t.id = r.id \/ t.abbreviation = r.abbreviation
         IN  InsertOrIgnoreNflTeams(IF clash THEN tbl ELSE tbl \cup {r}, Tail(rows))

\* teams_data: one tuple per entry of proTeams, in payload order
_load_nfl_teams(tbl, pro_teams) ==
    InsertOrIgnoreNflTeams(tbl,
        [i \in 1..Len(pro_teams) |->
            [id |-> pro_teams[i].id, abbreviation |-> pro_teams[i].abbrev]])

RECURSIVE FlattenGames(_, _)
\* games_data: every game of every team entry, tagged with the season
FlattenGames(pro_teams, season) ==
    IF pro_teams = <<>> THEN <<>>
    ELSE LET gs == Head(pro_teams).games
         IN  [i \in 1..Len(gs) |->
                [season |-> season, espn_game_id |-> gs[i].id,
                 home_team_id |-> gs[i].home, away_team_id |-> gs[i].away]]
             \o FlattenGames(Tail(pro_teams), season)

\* index of the last tuple of games_data with the key of tuple i
LastWithKey(games_data, i) ==
    Max({j \in 1..Len(games_data) :
            /\ games_data[j].season = games_data[i].season
            /\ games_data[j].espn_game_id = games_data[i].espn_game_id})

\* {(game[0], game[1]): game for game in games_data}.values(): one tuple per
\* key, at the place of the key's first occurrence, holding its last occurrence
UniqueGames(games_data) ==
    LET firsts == {i \in 1..Len(games_data) :
                      \A j \in 1..(i - 1) :
                          \/ games_data[j].season # games_data[i].season
                          \/ games_data[j].espn_game_id # games_data[i].espn_game_id}
        RECURSIVE Build(_)
        Build(i) == IF i > Len(games_data) THEN <<>>
                    ELSE (IF i \in firsts
                          THEN <<games_data[LastWithKey(games_data, i)]>>
                          ELSE <<>>) \o Build(i + 1)
    IN  Build(1)

RECURSIVE InsertOrReplaceGames(_, _)
\* INSERT OR REPLACE INTO games: the stored row of the key gives way to the new one
InsertOrReplaceGames(tbl, rows) ==
    IF rows = <<>> THEN tbl
    ELSE LET r == Head(rows)
             kept == {g \in tbl : ~(g.season = r.season /\ g.espn_game_id = r.espn_game_id)}
         IN  InsertOrReplaceGames(
                 kept \cup {[id |-> NextId(tbl), season |-> r.season,
                             espn_game_id |-> r.espn_game_id,
                             home_team_id |-> r.home_team_id,
                             away_team_id |-> r.away_team_id]},
                 Tail(rows))

RECURSIVE InsertOrIgnoreGames(_, _)
\* INSERT OR IGNORE INTO games: UNIQUE(season, espn_game_id)
InsertOrIgnoreGames(tbl, rows) ==
    IF rows = <<>> THEN tbl
    ELSE LET r == Head(rows)
             clash == \E g \in tbl : /\ g.season = r.season
                                     /\ g.espn_game_id = r.espn_game_id
         IN  InsertOrIgnoreGames(
                 IF clash THEN tbl
                 ELSE tbl \cup {[id |-> NextId(tbl), season |-> r.season,
                                 espn_game_id |-> r.espn_game_id,
                                 home_team_id |-> r.home_team_id,
                                 away_team_id |-> r.away_team_id]},
                 Tail(rows))

_load_games(tbl, pro_teams, season) ==
    InsertOrIgnoreGames(tbl, UniqueGames(FlattenGames(pro_teams, season)))

----------------------------------------------------------------------------
(* Step 2: load_players_data *)

\* position_map of _determine_position
PositionMap(slot_id) ==
    CASE slot_id = 0  -> "QB"
      [] slot_id = 2  -> "RB"
      [] slot_id = 4  -> "WR"
      [] slot_id = 6  -> "TE"
      [] slot_id = 17 -> "K"
      [] slot_id = 16 -> "DST"
      [] OTHER        -> "UNKNOWN"

RECURSIVE DeterminePositionOfLastSlot(_)
\* the position of the last recognised slot of the list
DeterminePositionOfLastSlot(eligibility) ==
    IF eligibility = <<>> THEN "UNKNOWN"
    ELSE LET later == DeterminePositionOfLastSlot(Tail(eligibility))
         IN  IF later # "UNKNOWN" THEN later
             ELSE PositionMap(Head(eligibility))

RECURSIVE _determine_position(_)
\* the position of the first recognised slot, in list order
_determine_position(eligibility) ==
    IF eligibility = <<>> THEN "UNKNOWN"
    ELSE IF PositionMap(Head(eligibility)) # "UNKNOWN"
         THEN PositionMap(Head(eligibility))
         ELSE _determine_position(Tail(eligibility))

\* "Player {id}", the name given when fullName is absent or empty (name 0);
\* it collates after the payload's names
FallbackName(player_id) == 100 + player_id

RECURSIVE PlayersListKeepingUnknown(_, _)
\* players_list, a record without a recognised slot being stored as UNKNOWN
PlayersListKeepingUnknown(season, players_data) ==
    IF players_data = <<>> THEN <<>>
    ELSE LET player == Head(players_data)
             position == _determine_position(player.eligibleSlots)
             rest == PlayersListKeepingUnknown(season, Tail(players_data))
         IN  IF player.id = 0 THEN rest
             ELSE <<[espn_player_id |-> player.id,
                     name |-> IF player.fullName = 0 THEN FallbackName(player.id)
                              ELSE player.fullName,
                     position |-> position,
                     season |-> season]>> \o rest

RECURSIVE PlayersList(_, _)
\* players_list of _load_players: the tuples to upsert, in payload order
PlayersList(season, players_data) ==
    IF players_data = <<>> THEN <<>>
    ELSE LET player == Head(players_data)
             position == _determine_position(player.eligibleSlots)
             rest == PlayersList(season, Tail(players_data))
         IN  IF player.id = 0 \/ position = "UNKNOWN" THEN rest
             ELSE <<[espn_player_id |-> player.id,
                     name |-> IF player.fullName = 0 THEN FallbackName(player.id)
                              ELSE player.fullName,
                     position |-> position,
                     season |-> season]>> \o rest

\* INSERT OR REPLACE INTO players, the key being espn_player_id alone
InsertOrReplacePlayerOfAnySeason(tbl, r) ==
    LET kept == {q \in tbl : q.espn_player_id # r.espn_player_id}
    IN  kept \cup {[id |-> NextId(tbl),
                    espn_player_id |-> r.espn_player_id,
                    name |-> r.name,
                    position |-> r.position,
                    season |-> r.season,
                    fantasy_score |-> 0,
                    position_rank |-> NULL,
                    overall_rank |-> NULL,
                    projected_position_rank |-> NULL,
                    projected_overall_rank |-> NULL]}

\* one INSERT OR REPLACE INTO players: the row holding the tuple's
\* (season, espn_player_id) is deleted and a new row is inserted under a new
\* rowid; the columns the statement does not name take their defaults
\* (fantasy_score 0.0, the rank columns NULL)
InsertOrReplacePlayer(tbl, r) ==
    LET kept == {q \in tbl : ~(q.season = r.season /\ q.espn_player_id = r.espn_player_id)}
    IN  kept \cup {[id |-> NextId(tbl),
                    espn_player_id |-> r.espn_player_id,
                    name |-> r.name,
                    position |-> r.position,
                    season |-> r.season,
                    fantasy_score |-> 0,
                    position_rank |-> NULL,
                    overall_rank |-> NULL,
                    projected_position_rank |-> NULL,
                    projected_overall_rank |-> NULL]}

RECURSIVE InsertOrReplacePlayers(_, _)
InsertOrReplacePlayers(tbl, rows) ==
    IF rows = <<>> THEN tbl
    ELSE InsertOrReplacePlayers(InsertOrReplacePlayer(tbl, Head(rows)), Tail(rows))

_load_players(tbl, season, players_data) ==
    InsertOrReplacePlayers(tbl, PlayersList(season, players_data))

\* SELECT COUNT(*) FROM players WHERE season = ?
PlayerCount(tbl, season) == Cardinality({q \in tbl : q.season = season})

\* load_players_data skipping the fetch whenever the season has rows, forced or not
LoadPlayersDataNeverForced(tbl, season, force_refresh, fetch) ==
    IF PlayerCount(tbl, season) > 0
    THEN [raised |-> FALSE, fetched |-> FALSE, players |-> tbl]
    ELSE IF fetch.error \/ fetch.data = <<>>
         THEN [raised |-> TRUE, fetched |-> TRUE, players |-> tbl]
         ELSE [raised |-> FALSE, fetched |-> TRUE,
               players |-> _load_players(tbl, season, fetch.data)]

\* load_players_data: [raised, fetched, players].  `fetch` is what
\* espn.get_players does when it is called: [error, data], it raises or
\* returns the list `data`
load_players_data(tbl, season, force_refresh, fetch) ==
    IF PlayerCount(tbl, season) > 0 /\ ~force_refresh
    THEN [raised |-> FALSE, fetched |-> FALSE, players |-> tbl]
    ELSE IF fetch.error \/ fetch.data = <<>>
         THEN [raised |-> TRUE, fetched |-> TRUE, players |-> tbl]
         ELSE [raised |-> FALSE, fetched |-> TRUE,
               players |-> _load_players(tbl, season, fetch.data)]

----------------------------------------------------------------------------
(* Step 3: load_draft_history *)

\* the rows of players in the order an unordered SELECT yields them: by rowid
\* under a table scan, by (season, espn_player_id) under a scan of the UNIQUE
\* index
ScanKey(q) ==
    IF plan = "rowid" THEN q.id
    ELSE q.season * 1000 + q.espn_player_id

\* _get_player_id_mapping: SELECT id, espn_player_id FROM players, no season
\* filter, folded into a dict, so the row scanned last wins
_get_player_id_mapping(tbl) ==
    [e \in {q.espn_player_id : q \in tbl} |->
        LET rows == {q \in tbl : q.espn_player_id = e}
        IN  (CHOOSE q \in rows : \A o \in rows : ScanKey(o) <= ScanKey(q)).id]

\* _get_fantasy_team_id_mapping(season)
_get_fantasy_team_id_mapping(tbl, season) ==
    [e \in {t.espn_team_id : t \in {x \in tbl : x.season = season}} |->
        (CHOOSE t \in tbl : t.season = season /\ t.espn_team_id = e).id]

\* teams_data of _load_fantasy_teams: a set of tuples; entries with a falsy id
\* are left out
TeamsData(teams, season) ==
    {[season |-> season, espn_team_id |-> teams[i].id, name |-> teams[i].name] :
        i \in {j \in 1..Len(teams) : teams[j].id # 0}}

RECURSIVE InsertOrReplaceFantasyTeams(_, _)
\* INSERT OR REPLACE INTO fantasy_teams: the stored row of the key gives way
InsertOrReplaceFantasyTeams(tbl, rows) ==
    IF rows = <<>> THEN tbl
    ELSE LET r == Head(rows)
             kept == {t \in tbl : ~(t.season = r.season /\ t.espn_team_id = r.espn_team_id)}
         IN  InsertOrReplaceFantasyTeams(
                 kept \cup {[id |-> NextId(tbl), season |-> r.season,
                             espn_team_id |-> r.espn_team_id, name |-> r.name]},
                 Tail(rows))

RECURSIVE InsertOrIgnoreFantasyTeams(_, _)
\* INSERT OR IGNORE INTO fantasy_teams: UNIQUE(season, espn_team_id)
InsertOrIgnoreFantasyTeams(tbl, rows) ==
    IF rows = <<>> THEN tbl
    ELSE LET r == Head(rows)
             clash == \E t \in tbl : /\ t.season = r.season
                                     /\ t.espn_team_id = r.espn_team_id
         IN  InsertOrIgnoreFantasyTeams(
                 IF clash THEN tbl
                 ELSE tbl \cup {[id |-> NextId(tbl), season |-> r.season,
                                 espn_team_id |-> r.espn_team_id, name |-> r.name]},
                 Tail(rows))

\* the orders in which list(teams_data) may enumerate the set
Orderings(S) ==
    {o \in [1..Cardinality(S) -> S] : \A i, j \in DOMAIN o : i # j => o[i] # o[j]}

\* _load_fantasy_teams, `order` being the enumeration list(teams_data) took
_load_fantasy_teams(tbl, order) == InsertOrIgnoreFantasyTeams(tbl, order)

RECURSIVE PicksDataUntilUnresolved(_, _, _, _)
\* picks_data, the loop ending at the first pick that is not in the lookup maps
PicksDataUntilUnresolved(picks, season, player_id_map, fantasy_team_id_map) ==
    IF picks = <<>> THEN <<>>
    ELSE LET pick == Head(picks)
             rest == PicksDataUntilUnresolved(Tail(picks), season, player_id_map,
                                              fantasy_team_id_map)
         IN  IF pick.playerId \notin DOMAIN player_id_map THEN <<>>
             ELSE IF pick.teamId \notin DOMAIN fantasy_team_id_map THEN <<>>
             ELSE <<[season |-> season,
                     espn_pick_id |-> pick.id,
                     player_id |-> player_id_map[pick.playerId],
                     fantasy_team_id |-> fantasy_team_id_map[pick.teamId],
                     round_id |-> pick.roundId,
                     is_keeper |-> pick.keeper]>> \o rest

RECURSIVE PicksData(_, _, _, _)
\* picks_data of _load_draft_picks: picks whose player or team is not in the
\* lookup maps are skipped
PicksData(picks, season, player_id_map, fantasy_team_id_map) ==
    IF picks = <<>> THEN <<>>
    ELSE LET pick == Head(picks)
             rest == PicksData(Tail(picks), season, player_id_map, fantasy_team_id_map)
         IN  IF pick.playerId \notin DOMAIN player_id_map THEN rest
             ELSE IF pick.teamId \notin DOMAIN fantasy_team_id_map THEN rest
             ELSE <<[season |-> season,
                     espn_pick_id |-> pick.id,
                     player_id |-> player_id_map[pick.playerId],
                     fantasy_team_id |-> fantasy_team_id_map[pick.teamId],
                     round_id |-> pick.roundId,
                     is_keeper |-> pick.keeper]>> \o rest

RECURSIVE InsertOrIgnoreDraftPicks(_, _)
\* INSERT OR IGNORE INTO draft_picks: UNIQUE(season, espn_pick_id) and
\* round_id NOT NULL (as are round_pick_number and overall_pick_number, which
\* round_id stands for); OR IGNORE skips a row that violates either
InsertOrIgnoreDraftPicks(tbl, rows) ==
    IF rows = <<>> THEN tbl
    ELSE LET r == Head(rows)
             clash == \E d \in tbl : /\ d.season = r.season
                                     /\ d.espn_pick_id = r.espn_pick_id
         IN  InsertOrIgnoreDraftPicks(
                 IF clash \/ r.round_id = NULL THEN tbl
                 ELSE tbl \cup {[id |-> NextId(tbl), season |-> r.season,
                                 espn_pick_id |-> r.espn_pick_id,
                                 player_id |-> r.player_id,
                                 fantasy_team_id |-> r.fantasy_team_id,
                                 round_id |-> r.round_id,
                                 is_keeper |-> r.is_keeper]},
                 Tail(rows))

\* _load_draft_picks: the lookup maps are read from the store at entry
_load_draft_picks(picks_tbl, players_tbl, teams_tbl, picks, season) ==
    InsertOrIgnoreDraftPicks(picks_tbl,
        PicksData(picks, season, _get_player_id_mapping(players_tbl),
                  _get_fantasy_team_id_mapping(teams_tbl, season)))

\* load_draft_history: [raised, fantasy_teams, draft_picks].  `fetch` is what
\* espn.get_draft_history does: it raises, or returns `data`, a list of league
\* snapshots of which data[0] is read (an empty list raises IndexError)
load_draft_history(teams_tbl, picks_tbl, players_tbl, season, fetch, order) ==
    IF fetch.error \/ fetch.data = <<>>
    THEN [raised |-> TRUE, fantasy_teams |-> teams_tbl, draft_picks |-> picks_tbl]
    ELSE LET teams_after == _load_fantasy_teams(teams_tbl, order)
         IN  [raised |-> FALSE,
              fantasy_teams |-> teams_after,
              draft_picks |-> _load_draft_picks(picks_tbl, players_tbl, teams_after,
                                                fetch.data[1].picks, season)]

----------------------------------------------------------------------------
(* Step 5: _reconcile_player_ranks *)

\* WHERE season = ? AND fantasy_score IS NOT NULL AND fantasy_score > 0
Ranked(tbl, season) ==
    {q \in tbl : q.season = season /\ q.fantasy_score # NULL /\ q.fantasy_score > 0}

\* ORDER BY fantasy_score DESC, name DESC
RankBeforeNameDescending(a, b) ==
    \/ a.fantasy_score > b.fantasy_score
    \/ /\ a.fantasy_score = b.fantasy_score
       /\ \/ a.name > b.name
          \/ a.name = b.name /\ ScanKey(a) < ScanKey(b)

\* ORDER BY fantasy_score DESC, name ASC, overall_rank DESC
RankBeforeByEarlierRank(a, b) ==
    \/ a.fantasy_score > b.fantasy_score
    \/ /\ a.fantasy_score = b.fantasy_score
       /\ \/ a.name < b.name
          \/ /\ a.name = b.name
             /\ \/ a.overall_rank > b.overall_rank
                \/ a.overall_rank = b.overall_rank /\ ScanKey(a) < ScanKey(b)

\* ORDER BY fantasy_score DESC, name ASC; rows equal in both keep the order in
\* which the scan of the season's rows delivered them to the sorter
RankBefore(a, b) ==
    \/ a.fantasy_score > b.fantasy_score
    \/ /\ a.fantasy_score = b.fantasy_score
       /\ \/ a.name < b.name
          \/ a.name = b.name /\ ScanKey(a) < ScanKey(b)

\* ROW_NUMBER() OVER (PARTITION BY position ORDER BY ...)
RankWithinPosition(tbl, season, q) ==
    1 + Cardinality({o \in Ranked(tbl, season) :
                        o.position = q.position /\ RankBefore(o, q)})

\* RANK() OVER (ORDER BY fantasy_score DESC): equal scores share a rank
RankOverallSharingTies(tbl, season, q) ==
    1 + Cardinality({o \in Ranked(tbl, season) : o.fantasy_score > q.fantasy_score})

\* ROW_NUMBER() OVER (ORDER BY ...)
RankOverall(tbl, season, q) ==
    1 + Cardinality({o \in Ranked(tbl, season) : RankBefore(o, q)})

\* the two UPDATE statements: only the rows the WHERE clause selects are written
UpdateRanks(tbl, season) ==
    {IF q \in Ranked(tbl, season)
     THEN [q EXCEPT !.position_rank = RankWithinPosition(tbl, season, q),
                    !.overall_rank = RankOverall(tbl, season, q)]
     ELSE q : q \in tbl}

\* sample_results: the ranked rows of the season, ORDER BY overall_rank ASC
\* LIMIT 5
SampleResults(tbl, season) ==
    LET rows == {q \in tbl : /\ q.season = season
                             /\ q.position_rank # NULL
                             /\ q.overall_rank # NULL}
        Earlier(o, q) == \/ o.overall_rank < q.overall_rank
                         \/ o.overall_rank = q.overall_rank /\ ScanKey(o) < ScanKey(q)
    IN  {q \in rows : Cardinality({o \in rows : Earlier(o, q)}) < SampleLimit}

\* _reconcile_player_ranks: [raised, players].  The UPDATE fails when the table
\* has no rank columns; after the commit the sample rows are formatted for the
\* log, which fails on a row whose fantasy_score is NULL; either way the
\* method raises IngestionError
_reconcile_player_ranks(tbl, season) ==
    IF ~rank_columns THEN [raised |-> TRUE, players |-> tbl]
    ELSE LET updated == UpdateRanks(tbl, season)
         IN  [raised |-> \E q \in SampleResults(updated, season) : q.fantasy_score = NULL,
              players |-> updated]

----------------------------------------------------------------------------
(* Step 4: load_rosters *)

\* "00" + str(season), the id of the season's stat bucket
StatKey(season) == <<"00", season>>

RECURSIVE AppliedTotal(_, _, _)
\* the loop over stats: the last entry whose id is the key sets the score
AppliedTotal(stats, season, fantasy_score) ==
    IF stats = <<>> THEN fantasy_score
    ELSE AppliedTotal(Tail(stats), season,
                      IF Head(stats).id = StatKey(season)
                      THEN Head(stats).appliedTotal ELSE fantasy_score)

\* _load_player_stats with UPDATE ... WHERE espn_player_id = ? alone
LoadPlayerStatsOfAnySeason(tbl, roster_entry, season) ==
    IF roster_entry.playerId = 0 \/ roster_entry.stats = <<>> THEN tbl
    ELSE LET fantasy_score == AppliedTotal(roster_entry.stats, season, 0)
         IN  {IF q.espn_player_id = roster_entry.playerId
              THEN [q EXCEPT !.fantasy_score = fantasy_score]
              ELSE q : q \in tbl}

\* _load_player_stats: UPDATE players SET fantasy_score = ? WHERE
\* espn_player_id = ? AND season = ?
_load_player_stats(tbl, roster_entry, season) ==
    IF roster_entry.playerId = 0 \/ roster_entry.stats = <<>> THEN tbl
    ELSE LET fantasy_score == AppliedTotal(roster_entry.stats, season, 0)
         IN  {IF q.espn_player_id = roster_entry.playerId /\ q.season = season
              THEN [q EXCEPT !.fantasy_score = fantasy_score]
              ELSE q : q \in tbl}

\* _load_roster_entry: the team is looked up by (espn_team_id, season), the
\* player by espn_player_id alone, taking the first row of the result;
\* INSERT OR IGNORE INTO rosters: UNIQUE(season, team_id, player_id, lineup_slot_id),
\* where a NULL lineup_slot_id (an entry without lineupSlotId) equals no other
\* value, NULL included, so such a row never conflicts
_load_roster_entry(rosters_tbl, players_tbl, teams_tbl, roster_entry, espn_team_id, season) ==
    LET team_results == {t \in teams_tbl : t.espn_team_id = espn_team_id /\ t.season = season}
        player_results == {q \in players_tbl : q.espn_player_id = roster_entry.playerId}
    IN  IF roster_entry.playerId = 0 \/ espn_team_id = 0 THEN rosters_tbl
        ELSE IF team_results = {} THEN rosters_tbl
        ELSE IF player_results = {} THEN rosters_tbl
        ELSE LET team_id == (CHOOSE t \in team_results : TRUE).id
                 player_id == (CHOOSE q \in player_results :
                                  \A o \in player_results : ScanKey(q) <= ScanKey(o)).id
                 clash == \E r \in rosters_tbl :
                              /\ r.season = season
                              /\ r.team_id = team_id
                              /\ r.player_id = player_id
                              /\ r.lineup_slot_id = roster_entry.lineupSlotId
                              /\ roster_entry.lineupSlotId # NULL
             IN  IF clash THEN rosters_tbl
                 ELSE rosters_tbl \cup {[id |-> NextId(rosters_tbl),
                                         team_id |-> team_id,
                                         player_id |-> player_id,
                                         lineup_slot_id |-> roster_entry.lineupSlotId,
                                         season |-> season]}

\* the loop over rankings: the first item of the name, else 0 and 0
RECURSIVE ProjectedRanks(_, _)
ProjectedRanks(rankings, player_pool_name) ==
    IF rankings = <<>> THEN [position_rank |-> 0, overall_rank |-> 0]
    ELSE IF Head(rankings).name = player_pool_name
         THEN [position_rank |-> Head(rankings).position_rank,
               overall_rank |-> Head(rankings).overall_rank]
         ELSE ProjectedRanks(Tail(rankings), player_pool_name)

\* _load_projected_ranks: [raised, players].  `docs[position]` is the ranking
\* document data_source/{season}_{position}.json, [exists, rankings]
_load_projected_ranks(tbl, roster_entry, season, docs) ==
    LET position == _determine_position(roster_entry.eligibleSlots)
    IN  IF roster_entry.playerId = 0 THEN [raised |-> FALSE, players |-> tbl]
        ELSE IF position \notin {"QB", "RB", "WR", "TE"}
             THEN [raised |-> FALSE, players |-> tbl]
        ELSE IF ~docs[position].exists THEN [raised |-> FALSE, players |-> tbl]
        ELSE IF ~rank_columns THEN [raised |-> TRUE, players |-> tbl]
        ELSE LET found == ProjectedRanks(docs[position].rankings, roster_entry.fullName)
             IN  [raised |-> FALSE,
                  players |->
                    {IF q.season = season /\ q.espn_player_id = roster_entry.playerId
                     THEN [q EXCEPT !.projected_position_rank = found.position_rank,
                                    !.projected_overall_rank = found.overall_rank]
                     ELSE q : q \in tbl}]

\* the body of the loop over roster_entries, for one entry: [raised, players, rosters]
LoadEntry(st, teams_tbl, roster_entry, espn_team_id, season, docs) ==
    LET players1 == _load_player_stats(st.players, roster_entry, season)
        rosters1 == _load_roster_entry(st.rosters, players1, teams_tbl,
                                       roster_entry, espn_team_id, season)
        proj == IF season = ProjectedSeason
                THEN _load_projected_ranks(players1, roster_entry, season, docs)
                ELSE [raised |-> FALSE, players |-> players1]
    IN  [raised |-> proj.raised, players |-> proj.players, rosters |-> rosters1]

RECURSIVE LoadEntries(_, _, _, _, _, _)
\* an exception leaving the loop body ends the loop
LoadEntries(st, teams_tbl, roster_entries, espn_team_id, season, docs) ==
    IF st.raised \/ roster_entries = <<>> THEN st
    ELSE LoadEntries(LoadEntry(st, teams_tbl, Head(roster_entries), espn_team_id, season, docs),
                     teams_tbl, Tail(roster_entries), espn_team_id, season, docs)

RECURSIVE LoadRosterTeams(_, _, _, _, _)
LoadRosterTeams(st, teams_tbl, teams, season, docs) ==
    IF st.raised \/ teams = <<>> THEN st
    ELSE LoadRosterTeams(
             LoadEntries(st, teams_tbl, Head(teams).entries, Head(teams).id, season, docs),
             teams_tbl, Tail(teams), season, docs)

\* load_rosters: [reconcile_called, swallowed, players, rosters]; it never
\* raises: every exception is caught and logged at its end
load_rosters(players_tbl, rosters_tbl, teams_tbl, season, fetch, docs) ==
    IF fetch.error \/ fetch.data = <<>>
    THEN [reconcile_called |-> FALSE, swallowed |-> fetch.error,
          players |-> players_tbl, rosters |-> rosters_tbl]
    ELSE LET st == LoadRosterTeams(
                       [raised |-> FALSE, players |-> players_tbl, rosters |-> rosters_tbl],
                       teams_tbl, fetch.data[1].teams, season, docs)
             rec == _reconcile_player_ranks(st.players, season)
         IN  IF st.raised
             THEN [reconcile_called |-> FALSE, swallowed |-> TRUE,
                   players |-> st.players, rosters |-> st.rosters]
             ELSE [reconcile_called |-> TRUE, swallowed |-> rec.raised,
                   players |-> rec.players, rosters |-> st.rosters]

----------------------------------------------------------------------------
(* The external source and the input files, as the pipeline runs see them *)

ExtPlayers == 1..MaxExtPlayer

\* eligibleSlots of external player i: a quarterback, a player with no
\* recognised slot, a running back listed after an unrecognised slot, ...
SlotsOf(i) ==
    CASE i % 3 = 1 -> <<0>>
      [] i % 3 = 2 -> <<99>>
      [] OTHER     -> <<99, 2, 4>>

\* appliedTotal of external player i in a season's bucket
ScoreOf(i, season) == IF i % 2 = 1 THEN 5 ELSE 7

\* espn.get_players(season)
PlayersPayload ==
    [i \in ExtPlayers |-> [id |-> i, fullName |-> i, eligibleSlots |-> SlotsOf(i)]]

\* the teams file: two NFL teams that list the same game
ProTeamsPayload ==
    << [id |-> 1, abbrev |-> "A", games |-> <<[id |-> 101, home |-> 1, away |-> 2]>>],
       [id |-> 2, abbrev |-> "B", games |-> <<[id |-> 101, home |-> 1, away |-> 2]>>] >>

\* espn.get_draft_history(season)[0]: one fantasy team; pick i takes external
\* player i, for team 1 or, every third pick, for a team the payload does not list
DraftPayload ==
    [teams |-> <<[id |-> 1, name |-> 1]>>,
     picks |-> [i \in 1..MaxPicks |->
                  [id |-> i, playerId |-> ((i - 1) % MaxExtPlayer) + 1,
                   teamId |-> IF i % 3 = 0 THEN 2 ELSE 1, roundId |-> 1,
                   keeper |-> FALSE]]]

RosterEntry(i, slot, season) ==
    [playerId |-> i, lineupSlotId |-> slot, fullName |-> i,
     eligibleSlots |-> SlotsOf(i),
     stats |-> << [id |-> <<"10", season>>, appliedTotal |-> 9],
                  [id |-> <<"00", season>>, appliedTotal |-> ScoreOf(i, season)] >>]

\* espn.get_rosters(season)[0]: team 1 rosters every external player, team 2
\* (not in the draft payload) rosters player 1
RostersPayload(season) ==
    [teams |-> << [id |-> 1, entries |-> [i \in ExtPlayers |-> RosterEntry(i, 0, season)]],
                  [id |-> 2, entries |-> <<RosterEntry(1, 20, season)>>] >>]

\* the projection documents on disk: none, or one for quarterbacks
NoDocs == [p \in {"QB", "RB", "WR", "TE"} |-> [exists |-> FALSE, rankings |-> <<>>]]
QbDoc  == [NoDocs EXCEPT !["QB"] =
              [exists |-> TRUE,
               rankings |-> <<[name |-> 1, position_rank |-> 3, overall_rank |-> 8]>>]]

Fetched(data) == [error |-> FALSE, data |-> data]
FetchError    == [error |-> TRUE, data |-> <<>>]

----------------------------------------------------------------------------
(* run_full_ingestion, step by step *)

Store == [nfl_teams |-> nfl_teams, games |-> games, fantasy_teams |-> fantasy_teams,
          players |-> players, draft_picks |-> draft_picks, rosters |-> rosters]

\* `full`: the roster fetch of the run returned the payload;
\* `rerun`: the run started right after a full run of the same season
NoRun == [season |-> 0, force |-> FALSE, teams_file |-> FALSE, rerun |-> FALSE,
          full |-> FALSE, outcome |-> "none"]
\* the last direct call: `fetched`, the source returned a payload; `reconciled`,
\* the call ended with a reconciliation that completed; `repeat`, the call
\* before it had ended with a completed reconciliation of the same season
NoCall == [op |-> "none", season |-> 0, raised |-> FALSE, fetched |-> FALSE,
           reconciled |-> FALSE, repeat |-> FALSE]

InitStore ==
    /\ nfl_teams = {} /\ games = {} /\ fantasy_teams = {}
    /\ players = {} /\ draft_picks = {} /\ rosters = {}

InitCtl ==
    /\ pc = "idle" /\ run = NoRun /\ log = <<>>
    /\ before = [nfl_teams |-> {}, games |-> {}, fantasy_teams |-> {},
                 players |-> {}, draft_picks |-> {}, rosters |-> {}]
    /\ last = NoCall

Init ==
    /\ InitStore
    /\ InitCtl
    /\ rank_columns \in BOOLEAN
    /\ plan \in {"rowid", "index"}
    /\ world \in {[docs |-> d, draft |-> DraftPayload, players |-> PlayersPayload] :
                     d \in {NoDocs, QbDoc}}

\* players rows a load of the payload stores
Storable == Len(PlayersList(0, world.players))

\* the caller invokes run_full_ingestion(teams_file, force_player_refresh, season)
StartRun(season, force, teams_file) ==
    /\ pc \in {"idle", "done", "failed"}
    /\ (force \/ PlayerCount(players, season) = 0)
          => NextId(players) + Storable - 1 <= MaxId
    /\ pc' = "teams"
    /\ run' = [season |-> season, force |-> force, teams_file |-> teams_file,
               rerun |-> (pc = "done" /\ run.season = season /\ run.full),
               full |-> FALSE, outcome |-> "running"]
    /\ before' = Store
    /\ log' = <<>>
    /\ UNCHANGED <<tables, env, last>>

Fail ==
    /\ pc' = "failed"
    /\ run' = [run EXCEPT !.outcome = "failed"]

\* self.load_teams_data(teams_file, season)
LoadTeamsData ==
    /\ pc = "teams"
    /\ log' = log \o <<"load_teams_data">>
                     \o (IF ~run.teams_file THEN <<"IngestionError">> ELSE <<>>)
    /\ IF ~run.teams_file
       THEN /\ Fail
            /\ UNCHANGED <<nfl_teams, games>>
       ELSE /\ nfl_teams' = _load_nfl_teams(nfl_teams, ProTeamsPayload)
            /\ games' = _load_games(games, ProTeamsPayload, run.season)
            /\ pc' = "players"
            /\ run' = run
    /\ UNCHANGED <<fantasy_teams, players, draft_picks, rosters, env, before, last>>

\* load_players_data logging its failure instead of raising it
LoadPlayersDataSwallowing(fetch) ==
    /\ pc = "players"
    /\ LET res == load_players_data(players, run.season, run.force, fetch)
       IN  /\ log' = log \o <<"load_players_data">>
                         \o (IF res.fetched THEN <<"get_players">> ELSE <<>>)
                         \o (IF res.raised THEN <<"IngestionError">> ELSE <<>>)
           /\ players' = res.players
    /\ pc' = "draft"
    /\ run' = run
    /\ UNCHANGED <<nfl_teams, games, fantasy_teams, draft_picks, rosters, env, before,
                   last>>

\* self.load_players_data(season, force_player_refresh)
LoadPlayersData(fetch) ==
    /\ pc = "players"
    /\ LET res == load_players_data(players, run.season, run.force, fetch)
       IN  /\ log' = log \o <<"load_players_data">>
                         \o (IF res.fetched THEN <<"get_players">> ELSE <<>>)
                         \o (IF res.raised THEN <<"IngestionError">> ELSE <<>>)
           /\ players' = res.players
           /\ IF res.raised THEN Fail ELSE pc' = "draft" /\ run' = run
    /\ UNCHANGED <<nfl_teams, games, fantasy_teams, draft_picks, rosters, env, before,
                   last>>

\* self.load_draft_history(draft_file, season)
LoadDraftHistory(fetch) ==
    /\ pc = "draft"
    /\ \E order \in Orderings(IF fetch.error \/ fetch.data = <<>> THEN {}
                              ELSE TeamsData(fetch.data[1].teams, run.season)) :
          LET res == load_draft_history(fantasy_teams, draft_picks, players,
                                        run.season, fetch, order)
          IN  /\ fantasy_teams' = res.fantasy_teams
              /\ draft_picks' = res.draft_picks
              /\ log' = log \o <<"load_draft_history", "get_draft_history">>
                            \o (IF res.raised THEN <<"IngestionError">>
                                ELSE <<"_load_fantasy_teams", "_load_draft_picks">>)
              /\ IF res.raised THEN Fail ELSE pc' = "rosters" /\ run' = run
    /\ UNCHANGED <<nfl_teams, games, players, rosters, env, before, last>>

\* self.load_rosters(season), then the statistics are read and returned
LoadRosters(fetch) ==
    /\ pc = "rosters"
    /\ LET res == load_rosters(players, rosters, fantasy_teams, run.season, fetch,
                               world.docs)
       IN  /\ players' = res.players
           /\ rosters' = res.rosters
           /\ log' = log \o <<"load_rosters", "get_rosters">>
                         \o (IF res.reconcile_called
                             THEN <<"_reconcile_player_ranks">> ELSE <<>>)
    /\ pc' = "done"
    /\ run' = [run EXCEPT !.outcome = "done",
                           !.full = (~fetch.error /\ fetch.data # <<>>)]
    /\ UNCHANGED <<nfl_teams, games, fantasy_teams, draft_picks, env, before, last>>

Next ==
    \/ \E season \in Seasons, force \in BOOLEAN, teams_file \in BOOLEAN :
          StartRun(season, force, teams_file)
    \/ LoadTeamsData
    \/ \E fetch \in {FetchError, Fetched(<<>>), Fetched(world.players)} :
          LoadPlayersData(fetch)
    \/ \E fetch \in {FetchError, Fetched(<<>>), Fetched(<<world.draft>>)} :
          LoadDraftHistory(fetch)
    \/ \E fetch \in {FetchError, Fetched(<<>>), Fetched(<<RostersPayload(run.season)>>)} :
          LoadRosters(fetch)

Spec == Init /\ [][Next]_vars

----------------------------------------------------------------------------
(* Claims about run_full_ingestion *)

\* place of a log entry in the order of one run; "IngestionError" is entered
\* when a step raises
StepRank(e) ==
    CASE e = "load_teams_data"         -> 1
      [] e = "load_players_data"       -> 2
      [] e = "get_players"             -> 3
      [] e = "load_draft_history"      -> 4
      [] e = "get_draft_history"       -> 5
      [] e = "_load_fantasy_teams"     -> 6
      [] e = "_load_draft_picks"       -> 7
      [] e = "load_rosters"            -> 8
      [] e = "get_rosters"             -> 9
      [] e = "_reconcile_player_ranks" -> 10
      [] e = "IngestionError"          -> 11

InLog(e) == \E i \in DOMAIN log : log[i] = e

\* C1: the steps of one run are entered in the order teams/games, players,
\* draft history (fantasy teams, then picks), rosters, rank reconciliation,
\* each only after the one before it was entered and returned; a run that
\* failed in step 1, 2 or 3 entered no later step, issued no later fetch and
\* left the tables of the later steps as they were when the run started
C1_StepOrder ==
    /\ \A i, j \in DOMAIN log : i < j => StepRank(log[i]) < StepRank(log[j])
    /\ InLog("load_players_data") => InLog("load_teams_data")
    /\ InLog("load_draft_history") => InLog("load_players_data")
    /\ InLog("_load_draft_picks") => InLog("_load_fantasy_teams")
    /\ InLog("load_rosters") => InLog("_load_draft_picks")
    /\ InLog("_reconcile_player_ranks") => InLog("get_rosters")
    /\ InLog("IngestionError") <=> pc = "failed"
    /\ pc = "failed" =>
          /\ log[Len(log)] = "IngestionError"
          /\ StepRank(log[Len(log) - 1]) <= 5
          /\ rosters = before.rosters
          /\ ~InLog("load_draft_history") =>
                fantasy_teams = before.fantasy_teams /\ draft_picks = before.draft_picks
          /\ ~InLog("load_players_data") => players = before.players
    /\ pc = "players" => ~InLog("load_players_data")
    /\ pc = "draft" => ~InLog("load_draft_history")
    /\ pc = "rosters" => ~InLog("load_rosters")

\* a run that wrote teams and games and then failed in the player step
C1_Witness ==
    /\ pc = "failed"
    /\ log = <<"load_teams_data", "load_players_data", "get_players", "IngestionError">>
    /\ games # before.games
    /\ fantasy_teams = before.fantasy_teams

\* C3: every draft pick and roster entry written by a run for season S holds
\* the ids of the players row and the fantasy_teams row of season S
C3_NaturalKey ==
    /\ pc \in {"rosters", "done"} =>
          \A d \in draft_picks \ before.draft_picks :
              /\ \E q \in players : q.id = d.player_id /\ q.season = run.season
              /\ \E t \in fantasy_teams : t.id = d.fantasy_team_id /\ t.season = run.season
    /\ pc = "done" =>
          \A r \in rosters \ before.rosters :
              /\ \E q \in players : q.id = r.player_id /\ q.season = run.season
              /\ \E t \in fantasy_teams : t.id = r.team_id /\ t.season = run.season

\* a run for one season wrote picks and roster entries while the other
\* season's players were stored
C3_Witness ==
    /\ pc = "done"
    /\ draft_picks # before.draft_picks
    /\ rosters # before.rosters
    /\ \E q \in players : q.season # run.season

\* C4: after a complete run every draft pick and every roster entry refers to
\* rows that exist in players and fantasy_teams
C4_NoDanglingRefs ==
    pc = "done" =>
        /\ \A d \in draft_picks :
              /\ \E q \in players : q.id = d.player_id
              /\ \E t \in fantasy_teams : t.id = d.fantasy_team_id
        /\ \A r \in rosters :
              /\ \E q \in players : q.id = r.player_id
              /\ \E t \in fantasy_teams : t.id = r.team_id

\* the columns of players a re-run is to preserve
ScoresAndRanks(tbl) ==
    {[season |-> q.season, espn_player_id |-> q.espn_player_id,
      fantasy_score |-> q.fantasy_score, position_rank |-> q.position_rank,
      overall_rank |-> q.overall_rank] : q \in tbl}

\* C5: a full run for a season, repeated with the same payloads, leaves every
\* table with as many rows as before and the players' scores and ranks as
\* they were, whatever the force-refresh flag
C5_RerunSafe ==
    (pc = "done" /\ run.rerun /\ run.full) =>
        /\ Cardinality(nfl_teams) = Cardinality(before.nfl_teams)
        /\ Cardinality(games) = Cardinality(before.games)
        /\ Cardinality(fantasy_teams) = Cardinality(before.fantasy_teams)
        /\ Cardinality(players) = Cardinality(before.players)
        /\ Cardinality(draft_picks) = Cardinality(before.draft_picks)
        /\ Cardinality(rosters) = Cardinality(before.rosters)
        /\ ScoresAndRanks(players) = ScoresAndRanks(before.players)

\* the same, for runs that do not force the player refresh
C5_RerunSafeUnforced ==
    (pc = "done" /\ run.rerun /\ run.full /\ ~run.force) =>
        /\ nfl_teams = before.nfl_teams /\ games = before.games
        /\ fantasy_teams = before.fantasy_teams /\ players = before.players
        /\ draft_picks = before.draft_picks /\ rosters = before.rosters

----------------------------------------------------------------------------
(* load_players_data and load_draft_history called on their own, the draft
   payload being any list of up to MaxPicks picks *)

\* pick lists: pick i of a payload has id i, any external player and team 1 or 2
PickLists ==
    UNION {{[i \in 1..n |-> [id |-> i, playerId |-> f[i][1], teamId |-> f[i][2],
                             roundId |-> 1, keeper |-> FALSE]] :
               f \in [1..n -> ExtPlayers \X {1, 2}]} : n \in 0..MaxPicks}

\* draft payloads: team 1 listed or no team listed; team 2 is never listed
DraftPayloads ==
    {[teams |-> ts, picks |-> ps] :
        ts \in {<<>>, <<[id |-> 1, name |-> 1]>>}, ps \in PickLists}

InitDraft ==
    /\ InitStore
    /\ InitCtl
    /\ rank_columns = FALSE
    /\ plan \in {"rowid", "index"}
    /\ world \in {[docs |-> NoDocs, draft |-> p, players |-> PlayersPayload] :
                     p \in DraftPayloads}

\* ingestion.load_players_data(season, force_refresh)
CallLoadPlayersData(season, force_refresh) ==
    /\ (force_refresh \/ PlayerCount(players, season) = 0)
          => NextId(players) + Storable - 1 <= MaxId
    /\ LET res == load_players_data(players, season, force_refresh,
                                    Fetched(world.players))
       IN  /\ players' = res.players
           /\ last' = [op |-> "load_players_data", season |-> season,
                       raised |-> res.raised, fetched |-> res.fetched,
                       reconciled |-> FALSE, repeat |-> FALSE]
    /\ before' = Store
    /\ UNCHANGED <<nfl_teams, games, fantasy_teams, draft_picks, rosters, env,
                   pc, run, log>>

\* ingestion.load_draft_history(season=season)
CallLoadDraftHistory(season, fetch) ==
    /\ \E order \in Orderings(IF fetch.error \/ fetch.data = <<>> THEN {}
                              ELSE TeamsData(fetch.data[1].teams, season)) :
          LET res == load_draft_history(fantasy_teams, draft_picks, players,
                                        season, fetch, order)
          IN  /\ fantasy_teams' = res.fantasy_teams
              /\ draft_picks' = res.draft_picks
              /\ last' = [op |-> "load_draft_history", season |-> season,
                          raised |-> res.raised,
                          fetched |-> (~fetch.error /\ fetch.data # <<>>),
                          reconciled |-> FALSE, repeat |-> FALSE]
    /\ before' = Store
    /\ UNCHANGED <<nfl_teams, games, players, rosters, env, pc, run, log>>

NextDraft ==
    \/ \E season \in Seasons, force_refresh \in BOOLEAN :
          CallLoadPlayersData(season, force_refresh)
    \/ \E season \in Seasons :
          \E fetch \in {FetchError, Fetched(<<>>), Fetched(<<world.draft>>)} :
              CallLoadDraftHistory(season, fetch)

SpecDraft == InitDraft /\ [][NextDraft]_vars

\* the pick's player has a players row (of any season) and its team a
\* fantasy_teams row of the season
Resolves(pick, season) ==
    /\ \E q \in players : q.espn_player_id = pick.playerId
    /\ \E t \in fantasy_teams : t.season = season /\ t.espn_team_id = pick.teamId

----------------------------------------------------------------------------
(* load_players_data, load_rosters, _load_player_stats and
   _reconcile_player_ranks called on their own, in any order *)

\* the players payloads: odd players are quarterbacks, even ones running
\* backs; the names run against the external ids (player 1 has the last name
\* in collation order), except that an odd player may carry the name of
\* player 1
RankedPayloads ==
    {[i \in 1..MaxRanked |->
         [id |-> i, fullName |-> name[i],
          eligibleSlots |-> IF i % 2 = 1 THEN <<0>> ELSE <<2>>]] :
       name \in {n \in [1..MaxRanked -> 1..MaxRanked] :
                    \A i \in 1..MaxRanked :
                        \/ n[i] = MaxRanked + 1 - i
                        \/ i % 2 = 1 /\ n[i] = MaxRanked}}

\* appliedTotal values of the roster payloads
RosterScores == {0, 250, 300}
\* appliedTotal values of the entries handed to _load_player_stats directly:
\* the same, or null
Scores == RosterScores \cup {NULL}

\* espn.get_rosters(season)[0]: one team rostering every player of the players
\* payload, player k with appliedTotal scores[k] in the season's bucket
RankedRosters(season, scores) ==
    [teams |-> << [id |-> 1,
                   entries |-> [k \in 1..MaxRanked |->
                       [playerId |-> k, lineupSlotId |-> 0,
                        fullName |-> world.players[k].fullName,
                        eligibleSlots |-> world.players[k].eligibleSlots,
                        stats |-> <<[id |-> StatKey(season),
                                     appliedTotal |-> scores[k]]>>]]] >>]

InitRank ==
    /\ InitStore
    /\ InitCtl
    /\ rank_columns \in BOOLEAN
    /\ plan \in {"rowid", "index"}
    /\ world \in {[docs |-> NoDocs, draft |-> DraftPayload, players |-> p] :
                     p \in RankedPayloads}

\* direct calls of `op` made so far; the caller makes at most MaxRosterLoads
\* calls of load_rosters and MaxOverwrites calls of _load_player_stats
Calls(op) == Cardinality({i \in DOMAIN log : log[i] = op})

\* ingestion.load_rosters(season)
CallLoadRosters(season, scores) ==
    /\ LET res == load_rosters(players, rosters, fantasy_teams, season,
                               Fetched(<<RankedRosters(season, scores)>>), world.docs)
       IN  /\ players' = res.players
           /\ rosters' = res.rosters
           /\ last' = [op |-> "load_rosters", season |-> season, raised |-> FALSE,
                       fetched |-> TRUE,
                       reconciled |-> (res.reconcile_called /\ ~res.swallowed),
                       repeat |-> FALSE]
    /\ log' = Append(log, "load_rosters")
    /\ before' = Store
    /\ UNCHANGED <<nfl_teams, games, fantasy_teams, draft_picks, env, pc, run>>

\* ingestion._load_player_stats(roster_entry, season), the entry holding one
\* stat of the season's bucket
CallLoadPlayerStats(season, k, score) ==
    /\ players' = _load_player_stats(players,
                      [playerId |-> k,
                       stats |-> <<[id |-> StatKey(season), appliedTotal |-> score]>>],
                      season)
    /\ last' = [op |-> "_load_player_stats", season |-> season, raised |-> FALSE,
                fetched |-> FALSE, reconciled |-> FALSE, repeat |-> FALSE]
    /\ log' = Append(log, "_load_player_stats")
    /\ before' = Store
    /\ UNCHANGED <<nfl_teams, games, fantasy_teams, draft_picks, rosters, env,
                   pc, run>>

\* ingestion._reconcile_player_ranks(season)
CallReconcilePlayerRanks(season) ==
    /\ LET res == _reconcile_player_ranks(players, season)
       IN  /\ players' = res.players
           /\ last' = [op |-> "_reconcile_player_ranks", season |-> season,
                       raised |-> res.raised, fetched |-> FALSE,
                       reconciled |-> ~res.raised,
                       repeat |-> (last.reconciled /\ last.season = season)]
    /\ before' = Store
    /\ UNCHANGED <<nfl_teams, games, fantasy_teams, draft_picks, rosters, env,
                   pc, run, log>>

NextRank ==
    \/ \E season \in Seasons, force_refresh \in BOOLEAN :
          CallLoadPlayersData(season, force_refresh)
    \/ /\ Calls("load_rosters") < MaxRosterLoads
       /\ \E season \in Seasons, scores \in [1..MaxRanked -> RosterScores] :
             CallLoadRosters(season, scores)
    \/ /\ Calls("_load_player_stats") < MaxOverwrites
       /\ \E season \in Seasons, k \in 1..MaxRanked, score \in Scores :
             CallLoadPlayerStats(season, k, score)
    \/ \E season \in Seasons : CallReconcilePlayerRanks(season)

SpecRank == InitRank /\ [][NextRank]_vars
----------------------------------------------------------------------------
(* load_teams_data called on its own, with any teams file *)

\* the games a team entry may list: game 101 or 102, team 1 at home or away
GameChoices ==
    {[id |-> g, home |-> h, away |-> 3 - h] : g \in {101, 102}, h \in {1, 2}}

GameLists == UNION {[1..n -> GameChoices] : n \in 0..MaxGames}

\* the teams files: NFL teams 1 and 2, each with its list of games
TeamsFiles ==
    {<< [id |-> 1, abbrev |-> "A", games |-> g1],
        [id |-> 2, abbrev |-> "B", games |-> g2] >> : g1, g2 \in GameLists}

\* ingestion.load_teams_data(teams_file, season); `exists`: the file is there
CallLoadTeamsData(season, exists, pro_teams) ==
    /\ IF exists
       THEN /\ nfl_teams' = _load_nfl_teams(nfl_teams, pro_teams)
            /\ games' = _load_games(games, pro_teams, season)
       ELSE UNCHANGED <<nfl_teams, games>>
    /\ last' = [op |-> "load_teams_data", season |-> season, raised |-> ~exists,
                fetched |-> exists, reconciled |-> FALSE, repeat |-> FALSE,
                pro_teams |-> pro_teams]
    /\ before' = Store
    /\ UNCHANGED <<fantasy_teams, players, draft_picks, rosters, env, pc, run, log>>

NextTeams ==
    \/ \E season \in Seasons : CallLoadTeamsData(season, FALSE, <<>>)
    \/ \E season \in Seasons, pro_teams \in TeamsFiles :
          CallLoadTeamsData(season, TRUE, pro_teams)

InitTeams ==
    /\ InitStore
    /\ InitCtl
    /\ rank_columns = FALSE
    /\ plan = "rowid"
    /\ world = [docs |-> NoDocs, draft |-> DraftPayload, players |-> PlayersPayload]

SpecTeams == InitTeams /\ [][NextTeams]_vars

\* the external game ids listed anywhere in the file
ListedGames(pro_teams) ==
    UNION {{pro_teams[i].games[j].id : j \in DOMAIN pro_teams[i].games} :
              i \in DOMAIN pro_teams}

----------------------------------------------------------------------------
(* Claims about the ranks *)

\* a reconciliation of season S has just completed
JustReconciled(S) == last.reconciled /\ last.season = S

\* the players of season S with a positive score
Scoring(S) ==
    {q \in players : q.season = S /\ q.fantasy_score # NULL /\ q.fantasy_score > 0}

Positions == {"QB", "RB", "WR", "TE", "K", "DST"}

\* the position ranks of the group are 1..N, each used once
DensePositionRanks(grp) ==
    /\ {q.position_rank : q \in grp} = 1..Cardinality(grp)
    /\ \A a, b \in grp : a.position_rank = b.position_rank => a = b

\* a ranks before b by the stated order: higher score, or equal score and the
\* name sorting before
StatedOrder(a, b) ==
    \/ a.fantasy_score > b.fantasy_score
    \/ a.fantasy_score = b.fantasy_score /\ a.name < b.name

\* C6, as stated: after a reconciliation of season S the scoring players of
\* each position carry the position ranks 1..N, each once, and of any two of
\* them a has the smaller rank exactly when a is before b in the stated order
C6_PositionRankExact ==
    \A S \in Seasons : JustReconciled(S) =>
        \A P \in Positions :
            LET grp == {q \in Scoring(S) : q.position = P}
            IN  /\ DensePositionRanks(grp)
                /\ \A a, b \in grp :
                      a.position_rank < b.position_rank <=> StatedOrder(a, b)

\* C6, amended: the same, the order of two players being fixed by the stated
\* order exactly when they differ in score or in name; two players equal in
\* both still get different ranks
C6_PositionRank ==
    \A S \in Seasons : JustReconciled(S) =>
        \A P \in Positions :
            LET grp == {q \in Scoring(S) : q.position = P}
            IN  /\ DensePositionRanks(grp)
                /\ \A a, b \in grp :
                      (a.fantasy_score # b.fantasy_score \/ a.name # b.name) =>
                          (a.position_rank < b.position_rank <=> StatedOrder(a, b))

\* a reconciliation ranked two quarterbacks of equal score by their names,
\* against the order of their ids, and a running back beside them
C6_Witness ==
    \E S \in Seasons :
        /\ JustReconciled(S)
        /\ \E a, b, c \in Scoring(S) :
              /\ a.position = "QB" /\ b.position = "QB" /\ c.position = "RB"
              /\ a.fantasy_score = b.fantasy_score /\ a.name < b.name
              /\ a.espn_player_id > b.espn_player_id
              /\ a.position_rank = 1 /\ b.position_rank = 2 /\ c.position_rank = 1

\* the players of season S are A, B, C and D, named in this order, with the
\* scores 300, 250, 250 and 0
Scenario(S, A, B, C, D) ==
    /\ {q \in players : q.season = S} = {A, B, C, D}
    /\ A.name < B.name /\ B.name < C.name /\ C.name < D.name
    /\ A.fantasy_score = 300 /\ B.fantasy_score = 250
    /\ C.fantasy_score = 250 /\ D.fantasy_score = 0

\* the row of `tbl` with the id of q carries no rank
Unranked(tbl, q) ==
    \A o \in tbl : o.id = q.id => o.position_rank = NULL /\ o.overall_rank = NULL

C8_NonScoringUnranked ==
    \A S \in Seasons : JustReconciled(S) =>
        \A q \in players :
            (q.season = S /\ (q.fantasy_score = NULL \/ q.fantasy_score = 0)) =>
                q.position_rank = NULL /\ q.overall_rank = NULL

\* C9: a reconciliation of season S that follows at once on a completed
\* reconciliation of S completes and leaves the players table, and so every
\* position rank and overall rank, as the first one left it
C9_Idempotent ==
    last.repeat => /\ last.reconciled
                   /\ players = before.players

\* a second reconciliation in a row of a season in which two players equal in
\* score and name are ranked
C9_Witness ==
    /\ last.repeat /\ last.reconciled
    /\ \E a, b \in Scoring(last.season) :
          /\ a # b /\ a.name = b.name /\ a.fantasy_score = b.fantasy_score
          /\ a.position_rank # NULL /\ b.position_rank # NULL
          /\ a.overall_rank # b.overall_rank
----------------------------------------------------------------------------
(* load_teams_data called on its own with files of any team entries *)

\* team entries in one teams file
MaxTeams == 2

\* a team entry: id 1 or 2, abbreviation "A" or "B", no games
TeamEntries ==
    {[id |-> i, abbrev |-> a, games |-> <<>>] : i \in {1, 2}, a \in {"A", "B"}}

\* the teams files: any list of up to MaxTeams team entries
NflFiles == UNION {[1..n -> TeamEntries] : n \in 0..MaxTeams}

NextNfl ==
    \/ \E season \in Seasons : CallLoadTeamsData(season, FALSE, <<>>)
    \/ \E season \in Seasons, pro_teams \in NflFiles :
          CallLoadTeamsData(season, TRUE, pro_teams)

SpecNfl == InitTeams /\ [][NextNfl]_vars

\* the team ids of the entries of a file
ListedTeams(pro_teams) == {pro_teams[i].id : i \in DOMAIN pro_teams}

\* C11: after load_teams_data has read a file, nfl_teams holds exactly one row
\* for each team id the file lists, whatever the season; a row stored before
\* the call is still there, unchanged, and the rows added are those of listed
\* team ids that were not stored
C11_OneRowPerTeam ==
    (last.op = "load_teams_data" /\ last.fetched) =>
        /\ \A t \in ListedTeams(last.pro_teams) :
              Cardinality({r \in nfl_teams : r.id = t}) = 1
        /\ before.nfl_teams \subseteq nfl_teams
        /\ \A r \in nfl_teams \ before.nfl_teams :
              /\ r.id \in ListedTeams(last.pro_teams)
              /\ \A o \in before.nfl_teams : o.id # r.id

\* a file listing a stored team id under another abbreviation, and a team id
\* not stored, was loaded
C11_Witness ==
    /\ last.op = "load_teams_data" /\ last.fetched
    /\ \E r \in before.nfl_teams, i, j \in DOMAIN last.pro_teams :
          /\ last.pro_teams[i].id = r.id
          /\ last.pro_teams[i].abbrev # r.abbreviation
          /\ r \in nfl_teams
          /\ \A o \in before.nfl_teams : o.id # last.pro_teams[j].id
----------------------------------------------------------------------------
(* load_players_data called on its own, the source answering each call with an
   error, an empty list or any list of player records *)

\* records in one players payload
MaxRecords == 2
\* calls of load_players_data in one behaviour
MaxLoads == 3

\* the player records: players 1 and 2 with a recognised slot or an
\* unrecognised one, player 2 with a recognised slot after an unrecognised one,
\* and a record without an id (0); the display name is the id
PlayerRecords ==
    {[id |-> i, fullName |-> i, eligibleSlots |-> sl] :
        i \in {1, 2}, sl \in {<<0>>, <<99>>}}
    \cup {[id |-> 2, fullName |-> 2, eligibleSlots |-> <<99, 2>>],
          [id |-> 0, fullName |-> 0, eligibleSlots |-> <<0>>]}

PlayerPayloads == UNION {[1..n -> PlayerRecords] : n \in 1..MaxRecords}

\* what espn.get_players may do when it is called
PlayerFetches == {FetchError, Fetched(<<>>)} \cup {Fetched(p) : p \in PlayerPayloads}

\* ingestion.load_players_data(season, force_refresh); `fetches` is the number
\* of calls of espn.get_players it made
CallLoadPlayersFrom(season, force_refresh, fetch) ==
    /\ NextId(players) + Len(fetch.data) - 1 <= MaxId
    /\ LET res == load_players_data(players, season, force_refresh, fetch)
       IN  /\ players' = res.players
           /\ last' = [op |-> "load_players_data", season |-> season,
                       raised |-> res.raised, fetched |-> res.fetched,
                       reconciled |-> FALSE, repeat |-> FALSE,
                       force_refresh |-> force_refresh, fetch |-> fetch,
                       fetches |-> IF res.fetched THEN 1 ELSE 0]
    /\ log' = Append(log, "load_players_data")
    /\ before' = Store
    /\ UNCHANGED <<nfl_teams, games, fantasy_teams, draft_picks, rosters, env, pc, run>>

NextPlayers ==
    /\ Calls("load_players_data") < MaxLoads
    /\ \E season \in Seasons, force_refresh \in BOOLEAN, fetch \in PlayerFetches :
          CallLoadPlayersFrom(season, force_refresh, fetch)

SpecPlayers == InitTeams /\ [][NextPlayers]_vars

\* the slot table
SlotTable == {0, 2, 4, 6, 16, 17}

\* the record has a slot of the slot table
Recognised(record) ==
    \E k \in DOMAIN record.eligibleSlots : record.eligibleSlots[k] \in SlotTable

\* the call fetched a payload and stored it
Loaded == last.op = "load_players_data" /\ last.fetched /\ ~last.raised

\* C12: after a player load of season S, a record none of whose slots is in
\* the slot table has no players row of season S unless another record of the
\* payload with the same id is stored, no row has the position UNKNOWN, and
\* every record with an id and a recognised slot has its row; the payload
\* [{id 1, slots [0]}, {id 2, slots [99]}] leaves exactly one row of the season
C12_UnknownPositionDropped ==
    Loaded =>
        LET data == last.fetch.data
            S == last.season
            rows == {q \in players : q.season = S}
        IN  /\ \A q \in players : q.position # "UNKNOWN"
            /\ \A i \in DOMAIN data :
                  (data[i].id # 0 /\ Recognised(data[i])) =>
                      \E q \in rows : q.espn_player_id = data[i].id
            /\ \A q \in rows \ before.players :
                  \E i \in DOMAIN data :
                      data[i].id = q.espn_player_id /\ Recognised(data[i])
            /\ \A i \in DOMAIN data :
                  (/\ ~Recognised(data[i])
                   /\ \A j \in DOMAIN data : data[j].id = data[i].id => ~Recognised(data[j])
                   /\ \A o \in before.players :
                         ~(o.season = S /\ o.espn_player_id = data[i].id)) =>
                      \A q \in rows : q.espn_player_id # data[i].id
            /\ (/\ before.players = {}
                /\ data = <<[id |-> 1, fullName |-> 1, eligibleSlots |-> <<0>>],
                            [id |-> 2, fullName |-> 2, eligibleSlots |-> <<99>>]>>) =>
                  Cardinality(players) = 1

\* the payload of the scenario was loaded into an empty store
C12_Witness ==
    /\ Loaded
    /\ before.players = {}
    /\ last.fetch.data = <<[id |-> 1, fullName |-> 1, eligibleSlots |-> <<0>>],
                           [id |-> 2, fullName |-> 2, eligibleSlots |-> <<99>>]>>
    /\ \E q \in players : q.espn_player_id = 1 /\ q.position = "QB"
    /\ Cardinality(players) = 1
----------------------------------------------------------------------------
(* _determine_position called on its own with any list of slot ids *)

\* slots in one eligibility list
MaxSlots == 3

\* the slot ids of the lists: the six recognised ones and two others
SlotIds == {0, 2, 4, 6, 16, 17, 1, 99}

EligibilityLists == UNION {[1..n -> SlotIds] : n \in 0..MaxSlots}

\* the caller holds a list (in `world`) and has not called yet
InitPosition ==
    /\ InitStore
    /\ InitCtl
    /\ rank_columns = FALSE
    /\ plan = "rowid"
    /\ world \in EligibilityLists

\* ingestion._determine_position(eligibility)
CallDeterminePosition ==
    /\ last.op = "none"
    /\ last' = [op |-> "_determine_position", eligibility |-> world,
                result |-> _determine_position(world)]
    /\ UNCHANGED <<tables, env, pc, run, log, before>>

NextPosition == CallDeterminePosition

SpecPosition == InitPosition /\ [][NextPosition]_vars

\* the table of the claim: 0=QB, 2=RB, 4=WR, 6=TE, 17=K, 16=DST
TableOf(slot_id) ==
    CASE slot_id = 0 -> "QB" [] slot_id = 2 -> "RB" [] slot_id = 4 -> "WR"
      [] slot_id = 6 -> "TE" [] slot_id = 17 -> "K" [] slot_id = 16 -> "DST"

\* C13: _determine_position returns the position the table gives for the
\* first element of the list, in list order, that is a key of the table, and
\* UNKNOWN when the list is empty or holds no key; [0, 4] gives QB and [2, 4]
\* gives RB
C13_FirstRecognisedSlot ==
    last.op = "_determine_position" =>
        LET e == last.eligibility
            keys == {k \in DOMAIN e : e[k] \in SlotTable}
        IN  /\ keys = {} => last.result = "UNKNOWN"
            /\ keys # {} =>
                  \E k \in keys : /\ \A j \in keys : k <= j
                                  /\ last.result = TableOf(e[k])
            /\ e = <<0, 4>> => last.result = "QB"
            /\ e = <<2, 4>> => last.result = "RB"

\* a list whose first key stands after an unrecognised slot and before
\* another key was resolved
C13_Witness ==
    /\ last.op = "_determine_position"
    /\ last.eligibility = <<99, 17, 0>>
    /\ last.result = "K"

\* record i of the payload is stored: it has an id and a recognised slot
StoredRecord(data, i) == data[i].id # 0 /\ Recognised(data[i])

\* C14: load_players_data(S, force_refresh) with a row of season S stored and
\* force_refresh false issues no fetch and leaves the players table as it was;
\* otherwise it issues the fetch exactly once, and when the fetch returns
\* records, every record that is stored has exactly one row of season S, made
\* from the last such record of its id, and all other rows are as they were
C14_FetchOnlyWhenNeeded ==
    last.op = "load_players_data" =>
        LET S == last.season
            data == last.fetch.data
            had == \E q \in before.players : q.season = S
            keys == {data[i].id : i \in {j \in DOMAIN data : StoredRecord(data, j)}}
        IN  /\ (had /\ ~last.force_refresh) =>
                  /\ last.fetches = 0
                  /\ ~last.raised
                  /\ players = before.players
            /\ (~had \/ last.force_refresh) =>
                  /\ last.fetches = 1
                  /\ last.raised => players = before.players
                  /\ ~last.raised =>
                        /\ \A e \in keys :
                              LET i == CHOOSE i \in DOMAIN data :
                                          /\ StoredRecord(data, i) /\ data[i].id = e
                                          /\ \A j \in DOMAIN data :
                                                (StoredRecord(data, j) /\ data[j].id = e)
                                                    => j <= i
                                  rows == {q \in players : q.season = S
                                                            /\ q.espn_player_id = e}
                              IN  /\ Cardinality(rows) = 1
                                  /\ \A q \in rows :
                                        /\ q.name = data[i].fullName
                                        /\ q.position = TableOf(
                                              data[i].eligibleSlots[
                                                  CHOOSE k \in DOMAIN data[i].eligibleSlots :
                                                      /\ data[i].eligibleSlots[k] \in SlotTable
                                                      /\ \A m \in 1..(k - 1) :
                                                            data[i].eligibleSlots[m] \notin SlotTable])
                        /\ \A q \in players :
                              (q.season # S \/ q.espn_player_id \notin keys) =>
                                  q \in before.players
                        /\ \A o \in before.players :
                              (o.season # S \/ o.espn_player_id \notin keys) =>
                                  o \in players

\* a forced load of a season that had rows fetched once and replaced a row,
\* the rows of the other season staying as they were
C14_Witness ==
    /\ last.op = "load_players_data"
    /\ last.force_refresh /\ last.fetches = 1 /\ ~last.raised
    /\ \E o \in before.players, q \in players :
          /\ o.season = last.season /\ q.season = last.season
          /\ o.espn_player_id = q.espn_player_id
          /\ o.position # q.position
    /\ \E o \in before.players : o.season # last.season /\ o \in players
----------------------------------------------------------------------------
(* The exceptions of steps 1 to 3 and of run_full_ingestion *)

\* calls of the steps and of run_full_ingestion in one behaviour
MaxStepCalls == 3

\* the classes raised in the steps; all derive from Exception
ExceptionClasses ==
    {"IngestionError", "JSONDecodeError", "KeyError", "IndexError", "AttributeError",
     "RequestException", "ValueError", "DatabaseError"}

\* an except clause naming `classes` catches `exc`
Catches(classes, exc) ==
    \/ exc \in classes
    \/ "Exception" \in classes /\ exc \in ExceptionClasses

\* what leaves a try block whose except clauses each raise IngestionError
Surfaced(handlers, exc) ==
    IF exc = "none" THEN "none"
    ELSE IF \E i \in DOMAIN handlers : Catches(handlers[i], exc) THEN "IngestionError"
    ELSE exc

\* the except clauses of load_teams_data and of load_draft_history
ParsingThenAny == << {"JSONDecodeError", "KeyError"}, {"Exception"} >>
\* the parsing clause alone
ParsingOnly == << {"JSONDecodeError", "KeyError"} >>

TeamsHandlers == ParsingThenAny
DraftHistoryHandlers == ParsingThenAny
\* the except clause of load_players_data and of run_full_ingestion
PlayersHandlers == << {"Exception"} >>
RunHandlers == << {"Exception"} >>

\* what can be wrong with the teams file
TeamsCauses == {"ok", "file_missing", "malformed_json", "not_an_object"}
\* what espn.get_players can do
PlayersCauses == {"ok", "request_failed", "invalid_response", "empty_result"}
\* what espn.get_draft_history can do: fail, or return an empty list or an
\* object instead of a list of league snapshots
DraftCauses == {"ok", "request_failed", "invalid_response", "empty_list", "object"}

\* the exception raised inside the try block of load_teams_data
TeamsRaises(cause) ==
    CASE cause = "file_missing"   -> "IngestionError"
      [] cause = "malformed_json" -> "JSONDecodeError"
      [] cause = "not_an_object"  -> "AttributeError"
      [] OTHER                    -> "none"

\* the exception raised inside the try block of load_players_data once the
\* fetch is called
PlayersRaises(cause) ==
    CASE cause = "request_failed"   -> "RequestException"
      [] cause = "invalid_response" -> "ValueError"
      [] cause = "empty_result"     -> "IngestionError"
      [] OTHER                      -> "none"

\* the exception raised inside the try block of load_draft_history: data[0]
\* of an empty list is an IndexError, of an object a KeyError
DraftRaises(cause) ==
    CASE cause = "request_failed"   -> "RequestException"
      [] cause = "invalid_response" -> "ValueError"
      [] cause = "empty_list"       -> "IndexError"
      [] cause = "object"           -> "KeyError"
      [] OTHER                      -> "none"

PlayersFetch(cause) ==
    CASE cause = "ok"           -> Fetched(world.players)
      [] cause = "empty_result" -> Fetched(<<>>)
      [] OTHER                  -> FetchError

\* step 1 with a teams file in the state `cause`: [exception, nfl_teams, games]
TeamsStep(st, season, cause) ==
    IF TeamsRaises(cause) # "none"
    THEN [st EXCEPT !.exception = Surfaced(TeamsHandlers, TeamsRaises(cause))]
    ELSE [st EXCEPT !.nfl_teams = _load_nfl_teams(st.nfl_teams, ProTeamsPayload),
                    !.games = _load_games(st.games, ProTeamsPayload, season)]

\* step 2
PlayersStep(st, season, force_refresh, cause) ==
    LET res == load_players_data(st.players, season, force_refresh, PlayersFetch(cause))
    IN  IF res.raised
        THEN [st EXCEPT !.exception = Surfaced(PlayersHandlers, PlayersRaises(cause))]
        ELSE [st EXCEPT !.players = res.players]

\* step 3
DraftStep(st, season, cause, order) ==
    IF DraftRaises(cause) # "none"
    THEN [st EXCEPT !.exception = Surfaced(DraftHistoryHandlers, DraftRaises(cause))]
    ELSE LET res == load_draft_history(st.fantasy_teams, st.draft_picks, st.players,
                                       season, Fetched(<<world.draft>>), order)
         IN  [st EXCEPT !.fantasy_teams = res.fantasy_teams,
                        !.draft_picks = res.draft_picks]

\* step 4, which raises nothing
RostersStep(st, season) ==
    LET res == load_rosters(st.players, st.rosters, st.fantasy_teams, season,
                            Fetched(<<RostersPayload(season)>>), world.docs)
    IN  [st EXCEPT !.players = res.players, !.rosters = res.rosters]

\* run_full_ingestion: the steps in turn, the first exception ending the try
\* block and being raised again by its except clause
RunSteps(st, season, force_refresh, causes, order) ==
    LET s1 == TeamsStep(st, season, causes[1])
        s2 == IF s1.exception # "none" THEN s1
              ELSE PlayersStep(s1, season, force_refresh, causes[2])
        s3 == IF s2.exception # "none" THEN s2
              ELSE DraftStep(s2, season, causes[3], order)
        s4 == IF s3.exception # "none" THEN s3 ELSE RostersStep(s3, season)
    IN  [s4 EXCEPT !.exception = Surfaced(RunHandlers, s4.exception)]

\* the store with no exception pending
Entry == [nfl_teams |-> nfl_teams, games |-> games, fantasy_teams |-> fantasy_teams,
          players |-> players, draft_picks |-> draft_picks, rosters |-> rosters,
          exception |-> "none"]

\* the caller's call returned or raised: the store and the exception it saw;
\* the caller makes at most MaxStepCalls calls
Return(op, season, causes, st) ==
    /\ Len(log) < MaxStepCalls
    /\ nfl_teams' = st.nfl_teams /\ games' = st.games
    /\ fantasy_teams' = st.fantasy_teams /\ players' = st.players
    /\ draft_picks' = st.draft_picks /\ rosters' = st.rosters
    /\ last' = [op |-> op, season |-> season, causes |-> causes,
                exception |-> st.exception]
    /\ log' = Append(log, op)
    /\ before' = Store
    /\ UNCHANGED <<env, pc, run>>

\* the only team order of the draft payload
TeamOrders(season) == Orderings(TeamsData(world.draft.teams, season))

\* a forced or first player load of the season fits the id range
PlayersFit(season, force_refresh) ==
    (force_refresh \/ PlayerCount(players, season) = 0)
        => NextId(players) + Storable - 1 <= MaxId

CallTeamsWith(season, cause) ==
    Return("load_teams_data", season, <<cause>>, TeamsStep(Entry, season, cause))

CallPlayersWith(season, force_refresh, cause) ==
    /\ PlayersFit(season, force_refresh)
    /\ Return("load_players_data", season, <<cause>>,
              PlayersStep(Entry, season, force_refresh, cause))

CallDraftWith(season, cause) ==
    \E order \in TeamOrders(season) :
        Return("load_draft_history", season, <<cause>>,
               DraftStep(Entry, season, cause, order))

CallRunWith(season, force_refresh, causes) ==
    /\ PlayersFit(season, force_refresh)
    /\ \E order \in TeamOrders(season) :
          Return("run_full_ingestion", season, causes,
                 RunSteps(Entry, season, force_refresh, causes, order))

\* the states of the three sources in one run: a source the run does not
\* reach, because an earlier step failed, is left at "ok"
RunCauses ==
    {c \in TeamsCauses \X PlayersCauses \X DraftCauses :
        /\ c[1] # "ok" => c[2] = "ok"
        /\ (c[1] # "ok" \/ c[2] # "ok") => c[3] = "ok"}

NextErrors ==
    \/ \E season \in Seasons, cause \in TeamsCauses : CallTeamsWith(season, cause)
    \/ \E season \in Seasons, force_refresh \in BOOLEAN, cause \in PlayersCauses :
          CallPlayersWith(season, force_refresh, cause)
    \/ \E season \in Seasons, cause \in DraftCauses : CallDraftWith(season, cause)
    \/ \E season \in Seasons, force_refresh \in BOOLEAN, causes \in RunCauses :
          CallRunWith(season, force_refresh, causes)

SpecErrors == InitTeams /\ [][NextErrors]_vars

\* the calls of the steps and of the run
StepCalls == {"load_teams_data", "load_players_data", "load_draft_history",
              "run_full_ingestion"}

\* C15: a call of step 1, 2 or 3 or of run_full_ingestion ends without an
\* exception or with IngestionError, never with another class; a missing teams
\* file, a draft payload that is an empty list or an object, or a failed
\* draft fetch always ends the step's call with IngestionError, and so does an
\* empty or failed player fetch whenever the fetch is made
C15_OnlyIngestionError ==
    last.op \in StepCalls =>
        /\ last.exception \in {"none", "IngestionError"}
        /\ (last.op = "load_teams_data" /\ last.causes[1] # "ok")
              => last.exception = "IngestionError"
        /\ (last.op = "load_draft_history" /\ last.causes[1] # "ok")
              => last.exception = "IngestionError"
        /\ (/\ last.op = "load_players_data" /\ last.causes[1] # "ok"
            /\ \A q \in before.players : q.season # last.season)
              => last.exception = "IngestionError"
        /\ (last.op = "run_full_ingestion" /\ last.causes[1] # "ok")
              => last.exception = "IngestionError"
        /\ (/\ last.op = "run_full_ingestion"
            /\ last.causes[1] = "ok" /\ last.causes[3] # "ok")
              => last.exception = "IngestionError"
        /\ last.exception # "none" => 
              /\ fantasy_teams = before.fantasy_teams
              /\ draft_picks = before.draft_picks
              /\ rosters = before.rosters

\* load_draft_history, called on a store that holds players, got an empty
\* list and raised IngestionError
C15_Witness ==
    /\ last.op = "load_draft_history"
    /\ last.causes = <<"empty_list">>
    /\ last.exception = "IngestionError"
    /\ players # {}
----------------------------------------------------------------------------
(* Claims about the roster step *)

\* C16: a run whose rank reconciliation was entered on a players table on
\* which the rank updates fail (the table has no rank columns) ends with
\* IngestionError raised to the caller, not with a normal return
C16_ReconcileFailureSurfaces ==
    (InLog("_reconcile_player_ranks") /\ ~rank_columns) => pc = "failed"

\* C17: after the roster step of a run has read its payload, rank
\* reconciliation was entered and every entry was processed, whatever failed
\* on an entry before it: every player of the season that the payload rosters
\* carries the score of its own entry
C17_EntryFailureSkipsOnlyEntry ==
    (pc = "done" /\ run.full) =>
        /\ InLog("_reconcile_player_ranks")
        /\ \A q \in players :
              q.season = run.season =>
                  q.fantasy_score = ScoreOf(q.espn_player_id, run.season)
----------------------------------------------------------------------------
(* _load_player_stats called on its own with any roster entry *)

\* stats in one roster entry
MaxStats == 2
\* calls of _load_player_stats in one behaviour
MaxStatCalls == 2

\* a stat: the bucket of one of the seasons or another bucket of 2023, with
\* appliedTotal 5 or 7
StatEntries ==
    {[id |-> <<b, s>>, appliedTotal |-> t] :
        b \in {"00", "10"}, s \in Seasons, t \in {5, 7}}
    \ {[id |-> <<"10", ProjectedSeason>>, appliedTotal |-> t] : t \in {5, 7}}

StatLists == UNION {[1..n -> StatEntries] : n \in 0..MaxStats}

\* the roster entries, as far as _load_player_stats reads them
StatRosterEntries == {[playerId |-> p, stats |-> st] : p \in ExtPlayers, st \in StatLists}

\* ingestion._load_player_stats(roster_entry, season)
CallLoadStatsOf(season, roster_entry) ==
    /\ Calls("_load_player_stats") < MaxStatCalls
    /\ players' = _load_player_stats(players, roster_entry, season)
    /\ last' = [op |-> "_load_player_stats", season |-> season, raised |-> FALSE,
                roster_entry |-> roster_entry]
    /\ log' = Append(log, "_load_player_stats")
    /\ before' = Store
    /\ UNCHANGED <<nfl_teams, games, fantasy_teams, draft_picks, rosters, env, pc, run>>

NextStats ==
    \/ \E season \in Seasons : CallLoadPlayersData(season, FALSE)
    \/ \E season \in Seasons, roster_entry \in StatRosterEntries :
          CallLoadStatsOf(season, roster_entry)

SpecStats == InitTeams /\ [][NextStats]_vars

\* the places in the entry's stats of the stats of the season's key "00"+S
KeyStats(roster_entry, S) ==
    {k \in DOMAIN roster_entry.stats : roster_entry.stats[k].id = <<"00", S>>}

\* C18: after the score step for season S has processed an entry of player p
\* that holds a stat of the key "00"+S, the players row (S, p) carries that
\* stat's appliedTotal (of the last such stat, if there are several) in place
\* of its earlier score; nothing is raised; every other row, the rows of p in
\* other seasons included, is as it was, and so is the whole table when no row
\* (S, p) exists
C18_ScoreOverwritten ==
    last.op = "_load_player_stats" =>
        LET S == last.season
            e == last.roster_entry
            keys == KeyStats(e, S)
            Own(q) == q.season = S /\ q.espn_player_id = e.playerId
        IN  /\ ~last.raised
            /\ keys # {} =>
                  \A q \in players :
                      Own(q) => \E k \in keys :
                                    /\ \A j \in keys : j <= k
                                    /\ q.fantasy_score = e.stats[k].appliedTotal
            /\ {q \in players : ~Own(q)} = {o \in before.players : ~Own(o)}
            /\ {[q EXCEPT !.fantasy_score = 0] : q \in players}
                 = {[o EXCEPT !.fantasy_score = 0] : o \in before.players}
            /\ (\A o \in before.players : ~Own(o)) => players = before.players

\* the score 5 of a player of 2023 was overwritten by 7 from an entry that
\* also holds stats of other buckets, the player's row of the other season
\* keeping its score
C18_Witness ==
    /\ last.op = "_load_player_stats"
    /\ Len(last.roster_entry.stats) = 2
    /\ Cardinality(KeyStats(last.roster_entry, last.season)) = 1
    /\ \E o \in before.players, q \in players, x \in players :
          /\ o.id = q.id /\ o.season = last.season
          /\ o.espn_player_id = last.roster_entry.playerId
          /\ o.fantasy_score = 5 /\ q.fantasy_score = 7
          /\ x.espn_player_id = o.espn_player_id /\ x.season # last.season
          /\ x \in before.players
----------------------------------------------------------------------------
(* load_rosters called on its own, with any roster payload *)

\* roster entries under the team of a roster payload
MaxEntries == 2
\* calls of load_rosters in one behaviour
MaxRosterCalls == 2

\* the roster entries of a season: player 1 (stored by a players load) or
\* player 2 (not stored), with lineupSlotId 0 or without lineupSlotId
RosterEntries(season) ==
    {RosterEntry(i, slot, season) : i \in {1, 2}, slot \in {0, NULL}}

\* espn.get_rosters(season)[0]: one team, 1 (in the draft payload) or 2 (not
\* in it), with up to MaxEntries entries
RosterPayloads(season) ==
    {[teams |-> <<[id |-> t, entries |-> es]>>] :
        t \in {1, 2},
        es \in UNION {[1..n -> RosterEntries(season)] : n \in 1..MaxEntries}}

RosterFetches(season) ==
    {FetchError, Fetched(<<>>)} \cup {Fetched(<<p>>) : p \in RosterPayloads(season)}

\* ingestion.load_rosters(season)
CallLoadRostersFrom(season, fetch) ==
    /\ Calls("load_rosters") < MaxRosterCalls
    /\ LET res == load_rosters(players, rosters, fantasy_teams, season, fetch, world.docs)
       IN  /\ players' = res.players
           /\ rosters' = res.rosters
           /\ last' = [op |-> "load_rosters", season |-> season, raised |-> FALSE,
                       fetch |-> fetch]
    /\ log' = Append(log, "load_rosters")
    /\ before' = Store
    /\ UNCHANGED <<nfl_teams, games, fantasy_teams, draft_picks, env, pc, run>>

\* the players and the fantasy teams of a season are loaded once, then
\* rosters are loaded
NextRoster ==
    \/ \E season \in Seasons : CallLoadPlayersData(season, FALSE)
    \/ \E season \in Seasons :
          /\ \A t \in fantasy_teams : t.season # season
          /\ CallLoadDraftHistory(season, Fetched(<<world.draft>>))
    \/ \E season \in Seasons :
          \E fetch \in RosterFetches(season) : CallLoadRostersFrom(season, fetch)

SpecRoster == InitTeams /\ [][NextRoster]_vars

\* the roster key of a row
RosterKey(r) == <<r.season, r.team_id, r.player_id, r.lineup_slot_id>>

\* the entries of the payload of the last load_rosters call, with their team
FetchedEntries ==
    IF last.fetch.error \/ last.fetch.data = <<>> THEN {}
    ELSE LET team == last.fetch.data[1].teams[1]
         IN  {<<team.id, team.entries[k]>> : k \in DOMAIN team.entries}

\* the entry's external team id and player id have rows to resolve to
ResolvesEntry(te, season) ==
    /\ \E t \in before.fantasy_teams : t.season = season /\ t.espn_team_id = te[1]
    /\ \E q \in before.players : q.espn_player_id = te[2].playerId

\* C19: rosters never holds two rows with the same (season, team_id,
\* player_id, lineup_slot_id); load_rosters raises nothing, removes no row,
\* and every row it adds is the one row of an entry of the payload whose
\* external team id and player id resolve and which was not stored before
C19_NoDuplicateRosterRows ==
    /\ \A r1, r2 \in rosters : RosterKey(r1) = RosterKey(r2) => r1 = r2
    /\ last.op = "load_rosters" =>
          /\ ~last.raised
          /\ before.rosters \subseteq rosters
          /\ \A r \in rosters \ before.rosters :
                /\ \A o \in before.rosters : RosterKey(o) # RosterKey(r)
                /\ \E te \in FetchedEntries :
                      /\ ResolvesEntry(te, last.season)
                      /\ r.season = last.season
                      /\ r.lineup_slot_id = te[2].lineupSlotId

\* a load whose payload holds an entry that is already stored, an entry of
\* a player without a row and a team or an entry that resolves
C19_Witness ==
    /\ last.op = "load_rosters"
    /\ before.rosters # {}
    /\ \E te \in FetchedEntries :
          /\ ResolvesEntry(te, last.season)
          /\ \E o \in before.rosters :
                o.season = last.season /\ o.lineup_slot_id = te[2].lineupSlotId
    /\ \E te \in FetchedEntries : ~ResolvesEntry(te, last.season)
----------------------------------------------------------------------------
(* load_rosters with and without ranking documents *)

\* the entries of player 1 (a quarterback) and player 3 (a running back),
\* under the name of the players payload or under a name no document lists
NamedEntries(season) ==
    UNION {{[RosterEntry(i, 0, season) EXCEPT !.fullName = name] : name \in {i, 4}} :
              i \in {1, 3}}

NamedFetches(season) ==
    {Fetched(<<[teams |-> <<[id |-> 1, entries |-> es]>>]>>) :
        es \in UNION {[1..n -> NamedEntries(season)] : n \in 1..MaxEntries}}

InitProjected ==
    /\ InitStore
    /\ InitCtl
    /\ rank_columns \in BOOLEAN
    /\ plan = "rowid"
    /\ world \in {[docs |-> d, draft |-> DraftPayload, players |-> PlayersPayload] :
                     d \in {NoDocs, QbDoc}}

NextProjected ==
    \/ \E season \in Seasons : CallLoadPlayersData(season, FALSE)
    \/ \E season \in Seasons :
          \E fetch \in NamedFetches(season) : CallLoadRostersFrom(season, fetch)

SpecProjected == InitProjected /\ [][NextProjected]_vars

\* the projected ranks of a players row
Projected(q) == <<q.projected_position_rank, q.projected_overall_rank>>

\* the ranking document of the entry's position is there and lists the
\* entry's name
Joins(roster_entry) ==
    LET position == _determine_position(roster_entry.eligibleSlots)
    IN  /\ position \in DOMAIN world.docs
        /\ world.docs[position].exists
        /\ \E k \in DOMAIN world.docs[position].rankings :
              world.docs[position].rankings[k].name = roster_entry.fullName

\* C20: load_rosters raises nothing; the projected ranks of a players row
\* change only in a load of season 2024, only for a row of that season, and
\* only when an entry of the row's player joins: the ranking document of its
\* position exists and lists its name; otherwise the row keeps the projected
\* ranks it had (null if never set)
C20_ProjectedOnlyWhenJoined ==
    last.op = "load_rosters" =>
        /\ ~last.raised
        /\ \A q \in players, o \in before.players :
              (q.id = o.id /\ Projected(q) # Projected(o)) =>
                  /\ last.season = ProjectedSeason
                  /\ q.season = ProjectedSeason
                  /\ \E te \in FetchedEntries :
                        /\ te[2].playerId = q.espn_player_id
                        /\ Joins(te[2])

\* a load of 2024, the quarterback document present and the columns there,
\* whose only entry is the stored quarterback under a name the document
\* does not list
C20_Witness ==
    /\ last.op = "load_rosters"
    /\ last.season = ProjectedSeason
    /\ rank_columns
    /\ world.docs["QB"].exists
    /\ \E o \in before.players : o.season = ProjectedSeason /\ o.espn_player_id = 1
    /\ \A te \in FetchedEntries : te[2].playerId = 1 /\ ~Joins(te[2])
    /\ FetchedEntries # {}
----------------------------------------------------------------------------
(* load_draft_history called on its own, with any team list *)

\* team entries in the team list of a draft payload
MaxTeamEntries == 2
\* calls of load_draft_history in one behaviour
MaxDraftCalls == 3

\* a team entry: external id 1 or 2, or no id; `name` stands for the data
\* fields of the entry (name, record, rankCalculatedFinal), which the tuple
\* and the INSERT carry side by side
FantasyTeamEntries == {[id |-> t, name |-> n] : t \in 0..2, n \in {1, 2}}

FantasyTeamLists == UNION {[1..n -> FantasyTeamEntries] : n \in 0..MaxTeamEntries}

\* espn.get_draft_history(season): it raises, returns no snapshot, or one
\* snapshot with a team list and no picks
FantasyFetches ==
    {FetchError, Fetched(<<>>)}
        \cup {Fetched(<<[teams |-> ts, picks |-> <<>>]>>) : ts \in FantasyTeamLists}

\* ingestion.load_draft_history(season=season)
CallLoadDraftHistoryFrom(season, fetch) ==
    /\ Calls("load_draft_history") < MaxDraftCalls
    /\ \E order \in Orderings(IF fetch.error \/ fetch.data = <<>> THEN {}
                              ELSE TeamsData(fetch.data[1].teams, season)) :
          LET res == load_draft_history(fantasy_teams, draft_picks, players,
                                        season, fetch, order)
          IN  /\ fantasy_teams' = res.fantasy_teams
              /\ draft_picks' = res.draft_picks
              /\ last' = [op |-> "load_draft_history", season |-> season,
                          raised |-> res.raised, fetch |-> fetch]
    /\ log' = Append(log, "load_draft_history")
    /\ before' = Store
    /\ UNCHANGED <<nfl_teams, games, players, rosters, env, pc, run>>

NextFantasy ==
    \E season \in Seasons, fetch \in FantasyFetches : CallLoadDraftHistoryFrom(season, fetch)

SpecFantasy == InitTeams /\ [][NextFantasy]_vars

\* the team entries of the payload of the last load_draft_history call
FetchedTeams ==
    IF last.fetch.error \/ last.fetch.data = <<>> THEN {}
    ELSE {last.fetch.data[1].teams[k] : k \in DOMAIN last.fetch.data[1].teams}

\* C21: after load_draft_history for season S has returned, fantasy_teams
\* holds exactly one row (S, e) for every external team id e of the payload's
\* team list; every row stored before the call is still there with the same
\* internal id and the same data, also when the payload lists its team with
\* other data; a new row is a row of season S for a team of the payload with
\* the data of one of its entries; a call that raises changes no row
C21_FantasyTeamCreatedOnce ==
    last.op = "load_draft_history" =>
        /\ before.fantasy_teams \subseteq fantasy_teams
        /\ last.raised => fantasy_teams = before.fantasy_teams
        /\ ~last.raised =>
              \A e \in FetchedTeams :
                  e.id # 0 =>
                      Cardinality({t \in fantasy_teams :
                                      t.season = last.season /\ t.espn_team_id = e.id}) = 1
        /\ \A t \in fantasy_teams \ before.fantasy_teams :
              /\ t.season = last.season
              /\ \E e \in FetchedTeams : e.id = t.espn_team_id /\ e.name = t.name
              /\ \A o \in before.fantasy_teams :
                    ~(o.season = t.season /\ o.espn_team_id = t.espn_team_id)
        /\ \A t1, t2 \in fantasy_teams :
              (t1.season = t2.season /\ t1.espn_team_id = t2.espn_team_id) => t1 = t2

\* team 1 of the season was stored under other data than the payload now
\* carries for it, and the payload also lists a team that was not stored
C21_Witness ==
    /\ last.op = "load_draft_history"
    /\ ~last.raised
    /\ \E o \in before.fantasy_teams, e \in FetchedTeams :
          /\ o.season = last.season /\ o.espn_team_id = e.id /\ o.name # e.name
          /\ o \in fantasy_teams
    /\ fantasy_teams # before.fantasy_teams
----------------------------------------------------------------------------
(* FantasyDatabase: statements, connection scope, wrapping of errors *)

\* parameter sets in one batch of execute_many
MaxBatch == 2

\* an integer beyond 64 bits, which the driver refuses to bind
Huge == 99

\* the exception classes of the driver, all subclasses of sqlite3.Error
Sqlite3Errors ==
    {"sqlite3.OperationalError", "sqlite3.IntegrityError", "sqlite3.ProgrammingError"}

\* a parameter tuple with fewer values than the statement has placeholders
Short == [season |-> 0, espn_team_id |-> 0, name |-> 0, values |-> 1]

\* parameter sets (season, espn_team_id, name) for an insert into fantasy_teams
ParamSets ==
    {[season |-> s, espn_team_id |-> t, name |-> 1, values |-> 3] :
        s \in {2023, NULL}, t \in {1, 2, Huge}} \cup {Short}

ParamLists == UNION {[1..n -> ParamSets] : n \in 0..MaxBatch}

InsertQueries == {"INSERT", "INSERT OR IGNORE"}

\* what the file system and the lock do to a call: sqlite3.connect fails or
\* not, conn.commit fails or not
StoreFaults == [open : BOOLEAN, commit : BOOLEAN]

\* conn.execute of one insert into fantasy_teams (season NOT NULL,
\* UNIQUE(season, espn_team_id)): [exc, tbl].  The tuple is bound before the
\* statement runs; OR IGNORE skips a row that violates a constraint
ExecuteInsert(tbl, query, params) ==
    IF params.values # 3 THEN [exc |-> "sqlite3.ProgrammingError", tbl |-> tbl]
    ELSE IF params.espn_team_id = Huge THEN [exc |-> "OverflowError", tbl |-> tbl]
    ELSE IF \/ params.season = NULL
            \/ \E t \in tbl : /\ t.season = params.season
                              /\ t.espn_team_id = params.espn_team_id
         THEN IF query = "INSERT OR IGNORE" THEN [exc |-> "none", tbl |-> tbl]
              ELSE [exc |-> "sqlite3.IntegrityError", tbl |-> tbl]
    ELSE [exc |-> "none",
          tbl |-> tbl \cup {[id |-> NextId(tbl), season |-> params.season,
                             espn_team_id |-> params.espn_team_id,
                             name |-> params.name]}]

RECURSIVE ExecuteMany(_, _, _)
\* conn.executemany: the parameter sets in order inside one transaction,
\* ending at the first that raises
ExecuteMany(tbl, query, params_list) ==
    IF params_list = <<>> THEN [exc |-> "none", tbl |-> tbl]
    ELSE LET r == ExecuteInsert(tbl, query, Head(params_list))
         IN  IF r.exc # "none" THEN r
             ELSE ExecuteMany(r.tbl, query, Tail(params_list))

\* conn.commit() after statements that left `r`: [exc, committed], the
\* table as the database file holds it when the body of the scope ends
Commit(tbl, r, faults) ==
    IF r.exc # "none" THEN [exc |-> r.exc, committed |-> tbl]
    ELSE IF faults.commit THEN [exc |-> "sqlite3.OperationalError", committed |-> tbl]
    ELSE [exc |-> "none", committed |-> r.tbl]

\* get_connection without its except clause
GetConnectionWithoutHandler(tbl, faults, body) ==
    IF faults.open
    THEN [cause |-> "sqlite3.OperationalError", exception |-> "sqlite3.OperationalError",
          table |-> tbl, conn |-> "none", events |-> <<>>]
    ELSE [cause |-> body.exc, exception |-> body.exc, table |-> body.committed,
          conn |-> "closed", events |-> <<"connect", "close">>]

\* get_connection around a body that ends with `body`: [cause, exception,
\* table, conn, events].  A sqlite3.Error is rolled back and raised as
\* DatabaseError; any other exception passes; the connection, once opened,
\* is closed on every path, which discards what was not committed
get_connection(tbl, faults, body) ==
    IF faults.open
    THEN [cause |-> "sqlite3.OperationalError", exception |-> "DatabaseError",
          table |-> tbl, conn |-> "none", events |-> <<>>]
    ELSE IF body.exc \in Sqlite3Errors
    THEN [cause |-> body.exc, exception |-> "DatabaseError", table |-> body.committed,
          conn |-> "closed", events |-> <<"connect", "rollback", "close">>]
    ELSE [cause |-> body.exc, exception |-> body.exc, table |-> body.committed,
          conn |-> "closed", events |-> <<"connect", "close">>]

\* the try/except sqlite3.Error around the scope in execute_query,
\* execute_insert, execute_many and clear_table
WrapSqlite3Error(r) ==
    IF r.exception \in Sqlite3Errors THEN [r EXCEPT !.exception = "DatabaseError"] ELSE r

\* execute_many committing after every parameter set
ExecuteManyCommittingEachRow(tbl, query, params_list, faults) ==
    LET r == ExecuteMany(tbl, query, params_list)
    IN  WrapSqlite3Error(get_connection(tbl, faults, [exc |-> r.exc, committed |-> r.tbl]))

execute_many(tbl, query, params_list, faults) ==
    WrapSqlite3Error(get_connection(tbl, faults,
                         Commit(tbl, ExecuteMany(tbl, query, params_list), faults)))

execute_insert(tbl, query, params, faults) ==
    WrapSqlite3Error(get_connection(tbl, faults,
                         Commit(tbl, ExecuteInsert(tbl, query, params), faults)))

\* execute_query of SELECT * FROM table_name: only fantasy_teams exists here
execute_query(tbl, table_name, faults) ==
    WrapSqlite3Error(get_connection(tbl, faults,
        [exc |-> IF table_name = "fantasy_teams" THEN "none"
                 ELSE "sqlite3.OperationalError",
         committed |-> tbl]))

\* clear_table: DELETE FROM table_name
clear_table(tbl, table_name, faults) ==
    WrapSqlite3Error(get_connection(tbl, faults,
        Commit(tbl, IF table_name = "fantasy_teams" THEN [exc |-> "none", tbl |-> {}]
                    ELSE [exc |-> "sqlite3.OperationalError", tbl |-> tbl],
               faults)))

\* a with self.db.get_connection() block of the ingestion code: an UPDATE of
\* a column, then commit; `column` exists or not, or the block raises KeyError
\* before its statement
Scope(tbl, column, faults) ==
    get_connection(tbl, faults,
        Commit(tbl, [exc |-> CASE column = "name"     -> "none"
                               [] column = "KeyError" -> "KeyError"
                               [] OTHER               -> "sqlite3.OperationalError",
                     tbl |-> {[t EXCEPT !.name = 2] : t \in tbl}],
               faults))

\* a store operation was called and ended with `r`
StoreReturn(op, args, r) ==
    /\ fantasy_teams' = r.table
    /\ last' = [op |-> op, args |-> args, cause |-> r.cause, exception |-> r.exception,
                conn |-> r.conn, events |-> r.events]
    /\ before' = Store
    /\ UNCHANGED <<nfl_teams, games, players, draft_picks, rosters, env, pc, run, log>>

CallExecuteMany(query, params_list, faults) ==
    StoreReturn("execute_many", [query |-> query, params |-> params_list],
                execute_many(fantasy_teams, query, params_list, faults))

CallExecuteInsert(query, params, faults) ==
    StoreReturn("execute_insert", [query |-> query, params |-> <<params>>],
                execute_insert(fantasy_teams, query, params, faults))

CallExecuteQuery(table_name, faults) ==
    StoreReturn("execute_query", [query |-> table_name, params |-> <<>>],
                execute_query(fantasy_teams, table_name, faults))

CallClearTable(table_name, faults) ==
    StoreReturn("clear_table", [query |-> table_name, params |-> <<>>],
                clear_table(fantasy_teams, table_name, faults))

CallScope(column, faults) ==
    StoreReturn("get_connection", [query |-> column, params |-> <<>>],
                Scope(fantasy_teams, column, faults))

NextStore ==
    \/ \E query \in InsertQueries, params_list \in ParamLists, faults \in StoreFaults :
          CallExecuteMany(query, params_list, faults)
    \/ \E query \in InsertQueries, params \in ParamSets, faults \in StoreFaults :
          CallExecuteInsert(query, params, faults)
    \/ \E table_name \in {"fantasy_teams", "nonexistent_table"}, faults \in StoreFaults :
          CallExecuteQuery(table_name, faults)
    \/ \E table_name \in {"fantasy_teams", "nonexistent_table"}, faults \in StoreFaults :
          CallClearTable(table_name, faults)
    \/ \E column \in {"name", "position_rank", "KeyError"}, faults \in StoreFaults :
          CallScope(column, faults)

SpecStore == InitTeams /\ [][NextStore]_vars

StoreOps == {"execute_many", "execute_insert", "execute_query", "clear_table",
             "get_connection"}

RowsOfBatch ==
    {last.args.params[k] : k \in DOMAIN last.args.params}

\* C23: when execute_many returns normally the statement of every parameter
\* set has taken effect and is committed: each set that names a row has its
\* row (season, espn_team_id) in the table, under a plain INSERT a new row
\* for each set; when the call raises, because a parameter set failed, the
\* database could not be opened or the commit failed, the table is what it
\* was before the call; on both paths the connection the call opened is
\* closed when the call returns
C23_CommitOrRollback ==
    last.op = "execute_many" =>
        /\ last.conn # "open"
        /\ last.conn = "none" => last.cause = "sqlite3.OperationalError"
        /\ last.exception # "none" => fantasy_teams = before.fantasy_teams
        /\ last.exception = "none" =>
              /\ before.fantasy_teams \subseteq fantasy_teams
              /\ \A p \in RowsOfBatch :
                    /\ p.values = 3 /\ p.espn_team_id # Huge
                    /\ p.season # NULL =>
                          \E t \in fantasy_teams :
                              t.season = p.season /\ t.espn_team_id = p.espn_team_id
              /\ last.args.query = "INSERT" =>
                    Cardinality(fantasy_teams) =
                        Cardinality(before.fantasy_teams) + Len(last.args.params)

\* a batch of two whose first parameter set was inserted and whose second
\* failed: the call raised and the row of the first is not in the table
C23_Witness ==
    /\ last.op = "execute_many"
    /\ Len(last.args.params) = 2
    /\ last.exception = "DatabaseError"
    /\ last.conn = "closed"
    /\ ExecuteInsert(before.fantasy_teams, last.args.query, last.args.params[1]).tbl
          # before.fantasy_teams
    /\ fantasy_teams = before.fantasy_teams
----------------------------------------------------------------------------
(* espn.ESPNClient._make_request: rate limit, attempts, backoff *)

\* largest max_retries a caller passes
MaxRetries == 2
\* calls of _make_request in one behaviour
MaxRequestCalls == 2
\* seconds the caller may spend between two calls
MaxPause == 1

\* config.API_RATE_LIMIT_DELAY and config.API_TIMEOUT, in seconds
API_RATE_LIMIT_DELAY == 1
API_TIMEOUT == 30
\* wait_time = min(2**retry_count, 30)
BackoffCap == 30
\* time.time() when the client is constructed
StartClock == 100

\* what requests.get does in one attempt: a response with a JSON body, a
\* response whose body is not JSON, a 4xx or 5xx response, or it raises
\* Timeout, ConnectionError or another RequestException
Outcomes == {"ok", "badjson", "4xx", "5xx", "timeout", "connection", "other"}

\* a response arrived, so _last_request_time is set after requests.get
Responded(o) == o \in {"ok", "badjson", "4xx", "5xx"}

\* seconds requests.get takes: a timeout takes API_TIMEOUT, anything else
\* may be as good as instant
Latency(o) == IF o = "timeout" THEN API_TIMEOUT ELSE 0

RECURSIVE Pow2(_)
Pow2(n) == IF n = 0 THEN 1 ELSE 2 * Pow2(n - 1)

\* the except clauses with the invalid-JSON ValueError counted and retried too
RetriedOutcomesWithBadJson == {"badjson", "5xx", "timeout", "connection", "other"}

\* the except clauses of the loop: is the attempt counted and retried
RetriedOutcomes == {"5xx", "timeout", "connection", "other"}

RECURSIVE Attempt(_, _, _, _)
\* the while loop from its test: `st` is [clock, _last_request_time, issued,
\* waits]; the result adds `exception`
Attempt(st, retry_count, outcomes, max_retries) ==
    IF retry_count > max_retries
    THEN [st EXCEPT !.exception = "RequestException"]
    ELSE LET o == outcomes[retry_count + 1]
             done == st.clock + Latency(o)
             st1 == [st EXCEPT !.issued = Append(@, st.clock),
                               !.clock = done,
                               !._last_request_time = IF Responded(o) THEN done ELSE @]
         IN  IF o \in RetriedOutcomes
             THEN LET wait_time == IF Pow2(retry_count + 1) < BackoffCap
                                   THEN Pow2(retry_count + 1) ELSE BackoffCap
                  IN  IF retry_count + 1 <= max_retries
                      THEN Attempt([st1 EXCEPT !.clock = @ + wait_time,
                                               !.waits = Append(@, wait_time)],
                                   retry_count + 1, outcomes, max_retries)
                      ELSE Attempt(st1, retry_count + 1, outcomes, max_retries)
             ELSE [st1 EXCEPT !.exception =
                      CASE o = "ok"      -> "none"
                        [] o = "badjson" -> "ValueError"
                        [] OTHER         -> "RequestException"]

\* _make_request called at time `now` by a client whose last response came
\* at `_last_request_time`
_make_request(_last_request_time, now, outcomes, max_retries) ==
    LET time_since_last_request == now - _last_request_time
        sleep_time == IF time_since_last_request < API_RATE_LIMIT_DELAY
                      THEN API_RATE_LIMIT_DELAY - time_since_last_request
                      ELSE 0
    IN  Attempt([clock |-> now + sleep_time, _last_request_time |-> _last_request_time,
                 issued |-> <<>>, waits |-> <<>>, exception |-> "none"],
                0, outcomes, max_retries)

\* the default client after construction: run holds its _last_request_time,
\* the clock and the calls made; log holds the times of all requests issued
InitRequest ==
    /\ InitStore
    /\ pc = "idle" /\ log = <<>> /\ last = NoCall
    /\ before = [nfl_teams |-> {}, games |-> {}, fantasy_teams |-> {},
                 players |-> {}, draft_picks |-> {}, rosters |-> {}]
    /\ run = [_last_request_time |-> 0, clock |-> StartClock, calls |-> 0]
    /\ rank_columns = FALSE
    /\ plan = "rowid"
    /\ world = [docs |-> NoDocs, draft |-> DraftPayload, players |-> PlayersPayload]

\* client._make_request(url, headers, max_retries=max_retries), `pause`
\* seconds after the previous call returned
CallMakeRequest(pause, outcomes, max_retries) ==
    /\ run.calls < MaxRequestCalls
    /\ LET res == _make_request(run._last_request_time, run.clock + pause,
                                outcomes, max_retries)
       IN  /\ run' = [_last_request_time |-> res._last_request_time,
                      clock |-> res.clock, calls |-> run.calls + 1]
           /\ log' = log \o res.issued
           /\ last' = [op |-> "_make_request", max_retries |-> max_retries,
                       outcomes |-> SubSeq(outcomes, 1, Len(res.issued)),
                       issued |-> res.issued, waits |-> res.waits,
                       exception |-> res.exception]
    /\ UNCHANGED <<tables, env, pc, before>>

NextRequest ==
    \E pause \in 0..MaxPause, max_retries \in 0..MaxRetries :
        \E outcomes \in [1..max_retries + 1 -> Outcomes] :
            CallMakeRequest(pause, outcomes, max_retries)

SpecRequest == InitRequest /\ [][NextRequest]_vars

\* the attempts of the last call and what each met
Attempts == DOMAIN last.issued

\* the parts of the statement that do not depend on the kind of failure: at
\* most max_retries+1 requests; a request follows only a timeout, a
\* connection error, a 5xx response or another request failure, after a
\* backoff wait that grows from attempt to attempt up to its cap; a 4xx response is the
\* last request of its call and raises RequestException
RetryDiscipline ==
    /\ Len(last.issued) <= last.max_retries + 1
    /\ Len(last.waits) = Len(last.issued) - 1 \/ Len(last.waits) = Len(last.issued)
    /\ \A k \in Attempts :
          k < Len(last.issued) =>
              /\ last.outcomes[k] \in {"timeout", "connection", "5xx", "other"}
              /\ last.issued[k + 1] >= last.issued[k] + last.waits[k]
    /\ \A k \in DOMAIN last.waits :
          /\ last.waits[k] > 0
          /\ k > 1 => (last.waits[k] > last.waits[k - 1] \/ last.waits[k] = BackoffCap)
    /\ \A k \in Attempts :
          last.outcomes[k] \in {"timeout", "connection", "5xx"} =>
              k = last.max_retries + 1 \/ k < Len(last.issued)
    /\ \A k \in Attempts :
          last.outcomes[k] = "4xx" =>
              k = Len(last.issued) /\ last.exception = "RequestException"

\* C24 as stated: besides the retry discipline, every call that fails
\* without a 4xx response has used all its max_retries+1 attempts and raises
\* RequestException
C24_RetryAsStated ==
    last.op = "_make_request" =>
        /\ RetryDiscipline
        /\ (last.exception # "none" /\ \A k \in Attempts : last.outcomes[k] # "4xx") =>
              /\ Len(last.issued) = last.max_retries + 1
              /\ last.exception = "RequestException"

\* C24, amended: a response whose body is not valid JSON ends the call at
\* once with ValueError, without a further request; every other call that
\* fails without a 4xx response has used all its max_retries+1 attempts and
\* raises RequestException; a call returns normally exactly when its last
\* request got a response with a JSON body
C24_RetryBounded ==
    last.op = "_make_request" =>
        /\ RetryDiscipline
        /\ \A k \in Attempts :
              last.outcomes[k] = "badjson" =>
                  k = Len(last.issued) /\ last.exception = "ValueError"
        /\ (/\ last.exception # "none"
            /\ \A k \in Attempts : last.outcomes[k] \notin {"4xx", "badjson"}) =>
              /\ Len(last.issued) = last.max_retries + 1
              /\ last.exception = "RequestException"
        /\ last.exception = "none" <=> last.outcomes[Len(last.issued)] = "ok"
        /\ last.exception \in {"none", "ValueError", "RequestException"}

\* a call with max_retries 2 met a timeout, then a 5xx response, then a
\* connection error: three requests, waits 2 and 4, RequestException
C24_Witness ==
    /\ last.op = "_make_request"
    /\ last.max_retries = 2
    /\ last.outcomes = <<"timeout", "5xx", "connection">>
    /\ last.waits = <<2, 4>>
    /\ last.exception = "RequestException"

\* C25: of the requests issued by any sequence of calls and retries, no two
\* consecutive ones are closer together than API_RATE_LIMIT_DELAY, whatever
\* became of the earlier one
C25_MinimumInterval ==
    \A i \in DOMAIN log :
        i > 1 => log[i] - log[i - 1] >= API_RATE_LIMIT_DELAY

\* a second call made right after a call whose last request raised a
\* connection error
C25_Witness ==
    /\ run.calls = 2
    /\ last.op = "_make_request"
    /\ Len(log) > Len(last.issued)
    /\ \E i \in DOMAIN log :
          /\ i > 1
          /\ i = Len(log) - Len(last.issued) + 1
          /\ log[i] = log[i - 1]
----------------------------------------------------------------------------
(* espn.espn_cache around get_draft_history, get_players and get_rosters *)

\* calls of the cached fetches in one behaviour
MaxFetchCalls == 3

FetchFunctions == {"get_draft_history", "get_players", "get_rosters"}

\* what the source would answer if asked now: it raises, or returns a list
\* of league snapshots, which changes from one request to the next
SourceAnswers == {FetchError, Fetched(<<>>), Fetched(<<1>>), Fetched(<<2>>)}

\* the cache key with the season left out of it
CacheKeyOfFunctionOnly(func_name, args, kwargs) ==
    [function |-> func_name, args |-> <<>>, kwargs |-> {}]

\* _generate_cache_key: the MD5 of the JSON text of the function name, the
\* positional arguments without self, and the sorted keyword arguments; the
\* key stands here as that text, two keys being equal when the texts are
_generate_cache_key(func_name, args, kwargs) ==
    [function |-> func_name, args |-> args, kwargs |-> kwargs]

\* _load_from_cache: the data of the key's file, or None when there is no file
_load_from_cache(cache, cache_key) ==
    IF \E e \in cache : e.key = cache_key
    THEN [found |-> TRUE, data |-> (CHOOSE e \in cache : e.key = cache_key).data]
    ELSE [found |-> FALSE, data |-> <<>>]

\* _save_to_cache: the key's file is written anew
_save_to_cache(cache, cache_key, data) ==
    {e \in cache : e.key # cache_key} \cup {[key |-> cache_key, data |-> data]}

\* the wrapper of espn_cache around a fetch that would do `source`:
\* [result, raised, requested, cache]
espn_cache(cache, enabled, func_name, args, kwargs, source) ==
    LET cache_key == _generate_cache_key(func_name, args, kwargs)
        cached_data == _load_from_cache(cache, cache_key)
    IN  IF enabled /\ cached_data.found
        THEN [result |-> cached_data.data, raised |-> FALSE, requested |-> FALSE,
              cache |-> cache]
        ELSE IF source.error
        THEN [result |-> <<>>, raised |-> TRUE, requested |-> TRUE, cache |-> cache]
        ELSE [result |-> source.data, raised |-> FALSE, requested |-> TRUE,
              cache |-> IF enabled THEN _save_to_cache(cache, cache_key, source.data)
                        ELSE cache]

\* the cache directory is empty; world holds the configuration, run the
\* cache files and the calls made, log the requests sent to the source
InitCache ==
    /\ InitStore
    /\ pc = "idle" /\ log = <<>> /\ last = NoCall
    /\ before = [nfl_teams |-> {}, games |-> {}, fantasy_teams |-> {},
                 players |-> {}, draft_picks |-> {}, rosters |-> {}]
    /\ run = [cache |-> {}, calls |-> 0]
    /\ rank_columns = FALSE
    /\ plan = "rowid"
    /\ world \in {[ENABLE_ESPN_CACHE |-> b] : b \in BOOLEAN}

\* client.get_...(season) or client.get_...(season=season)
CallFetch(func_name, season, keyword, source) ==
    /\ run.calls < MaxFetchCalls
    /\ LET args == IF keyword THEN <<>> ELSE <<season>>
           kwargs == IF keyword THEN {<<"season", season>>} ELSE {}
           res == espn_cache(run.cache, world.ENABLE_ESPN_CACHE, func_name, args,
                             kwargs, source)
       IN  /\ run' = [cache |-> res.cache, calls |-> run.calls + 1]
           /\ log' = IF res.requested THEN Append(log, <<func_name, season>>) ELSE log
           /\ last' = [op |-> "fetch", function |-> func_name, args |-> args,
                       kwargs |-> kwargs, source |-> source, result |-> res.result,
                       raised |-> res.raised, requested |-> res.requested,
                       cache |-> run.cache]
    /\ UNCHANGED <<tables, env, pc, before>>

NextCache ==
    \E func_name \in FetchFunctions, season \in Seasons, keyword \in BOOLEAN,
       source \in SourceAnswers :
        CallFetch(func_name, season, keyword, source)

SpecCache == InitCache /\ [][NextCache]_vars

\* the entries of the cache before the last call that were stored by the
\* same function with the same arguments
EntriesOfCall ==
    {e \in last.cache : /\ e.key.function = last.function
                        /\ e.key.args = last.args
                        /\ e.key.kwargs = last.kwargs}

----------------------------------------------------------------------------
(* FantasyQueries over a store that load_players_data and load_draft_history
   filled for one or several seasons *)

\* calls of load_draft_history before the queries are asked
MaxQueryLoads == 2

QueryNames == {"get_draft_picks_by_round", "get_picks_by_position", "get_keeper_analysis"}

\* the parameters of each query besides self
Parameters(query) ==
    CASE query = "get_draft_picks_by_round" -> {"round_id"}
      [] query = "get_picks_by_position"    -> {"position"}
      [] OTHER                              -> {}

\* the values tried for a keyword; "" stands for a position of None
KeywordValues(keyword) ==
    CASE keyword = "round_id" -> {NULL, 1}
      [] keyword = "position" -> {"", "QB"}
      [] OTHER                -> {NULL} \cup Seasons

\* keyword arguments a caller may pass to a query: none, the query's own
\* filter, season (None or a season), or both
KeywordArguments(query) ==
    UNION {{[k \in names |-> CASE k = "round_id" -> r
                               [] k = "position" -> p
                               [] OTHER          -> s] :
               r \in KeywordValues("round_id"), p \in KeywordValues("position"),
               s \in KeywordValues("season")} :
           names \in SUBSET (Parameters(query) \cup {"season"})}

\* NULL in a column of text
NullText == "NULL"

\* the right-hand rows of a LEFT JOIN for one left-hand row: the rows that
\* satisfy the ON condition, or one row of NULLs
LeftJoin(matching) ==
    IF matching # {} THEN matching
    ELSE {[id |-> NULL, name |-> NULL, position |-> NullText]}

\* FROM draft_picks dp LEFT JOIN players p ON dp.player_id = p.id
\*                     LEFT JOIN fantasy_teams ft ON dp.fantasy_team_id = ft.id
\* each result row is kept with the rowids of the draft_picks and
\* fantasy_teams rows it was joined from, so that equal rows stay apart
PicksJoined(tbl) ==
    UNION {{[pick |-> d.id, team |-> ft.id, player_name |-> p.name,
             position |-> p.position, fantasy_team_name |-> ft.name,
             is_keeper |-> d.is_keeper] :
               p \in LeftJoin({r \in tbl.players : r.id = d.player_id}),
               ft \in LeftJoin({r \in tbl.fantasy_teams : r.id = d.fantasy_team_id})} :
           d \in tbl.draft_picks}

\* get_draft_picks_by_round(round_id)
get_draft_picks_by_round(tbl, round_id) ==
    {r \in PicksJoined(tbl) :
        round_id # NULL =>
            \E d \in tbl.draft_picks : d.id = r.pick /\ d.round_id = round_id}

\* get_picks_by_position(position): None or an empty position is no filter
get_picks_by_position(tbl, position) ==
    {r \in PicksJoined(tbl) :
        /\ r.position # NullText
        /\ position # "" => r.position = position}

\* get_keeper_analysis:
\* LEFT JOIN fantasy_teams ft ON dp.fantasy_team_id = ft.espn_team_id
\* WHERE dp.is_keeper = 1
get_keeper_analysis(tbl) ==
    UNION {{[pick |-> d.id, team |-> ft.id, player_name |-> p.name,
             position |-> p.position, fantasy_team_name |-> ft.name,
             is_keeper |-> d.is_keeper] :
               p \in LeftJoin({r \in tbl.players : r.id = d.player_id}),
               ft \in LeftJoin({r \in tbl.fantasy_teams :
                                   r.espn_team_id = d.fantasy_team_id})} :
           d \in {x \in tbl.draft_picks : x.is_keeper}}

\* queries.<query>(**kwargs): a keyword that is no parameter of the method
\* raises TypeError before the method body runs
CallOf(query, kwargs, tbl) ==
    IF ~(DOMAIN kwargs \subseteq Parameters(query))
    THEN [raised |-> "TypeError", rows |-> {}]
    ELSE [raised |-> "",
          rows |-> CASE query = "get_draft_picks_by_round" ->
                          get_draft_picks_by_round(tbl,
                              IF "round_id" \in DOMAIN kwargs THEN kwargs["round_id"]
                              ELSE NULL)
                     [] query = "get_picks_by_position" ->
                          get_picks_by_position(tbl,
                              IF "position" \in DOMAIN kwargs THEN kwargs["position"]
                              ELSE "")
                     [] OTHER -> get_keeper_analysis(tbl)]

\* odd picks of a draft payload take external player 1 for team 1, even
\* picks player 3 for team 2, each in round 1, as a keeper or not
KeeperPickLists ==
    UNION {{[i \in 1..n |-> [id |-> i, playerId |-> IF i % 2 = 1 THEN 1 ELSE 3,
                             teamId |-> IF i % 2 = 1 THEN 1 ELSE 2,
                             roundId |-> 1, keeper |-> f[i]]] :
               f \in [1..n -> BOOLEAN]} : n \in 0..MaxPicks}

\* espn.get_draft_history(season): one snapshot listing teams 1 and 2
KeeperFetches ==
    {Fetched(<<[teams |-> <<[id |-> 1, name |-> 1], [id |-> 2, name |-> 2]>>,
                picks |-> ps]>>) : ps \in KeeperPickLists}

\* queries.<query>(**kwargs)
CallQuery(query, kwargs) ==
    /\ LET res == CallOf(query, kwargs, Store)
       IN  last' = [op |-> query, kwargs |-> kwargs, raised |-> res.raised,
                    rows |-> res.rows]
    /\ before' = Store
    /\ UNCHANGED <<tables, env, pc, run, log>>

NextQuery ==
    \/ \E season \in Seasons : CallLoadPlayersData(season, FALSE)
    \/ \E season \in Seasons, fetch \in KeeperFetches :
          /\ Calls("load_draft_history") < MaxQueryLoads
          /\ CallLoadDraftHistoryFrom(season, fetch)
    \/ \E query \in QueryNames :
          \E kwargs \in KeywordArguments(query) : CallQuery(query, kwargs)

SpecQuery == InitTeams /\ [][NextQuery]_vars

\* the season of the draft_picks row a result row was derived from
SeasonOfRow(r) == (CHOOSE d \in draft_picks : d.id = r.pick).season

\* C27: every query accepts the keyword season; called with season S it
\* returns only rows derived from draft_picks rows of season S, and a result
\* holds rows of more than one season only when season was omitted or None
C27_SeasonFilter ==
    (/\ last.op \in QueryNames
     /\ DOMAIN last.kwargs \subseteq Parameters(last.op) \cup {"season"}) =>
        /\ last.raised = ""
        /\ ("season" \in DOMAIN last.kwargs /\ last.kwargs["season"] # NULL) =>
              \A r \in last.rows : SeasonOfRow(r) = last.kwargs["season"]

\* the store holds picks of both seasons and get_draft_picks_by_round was
\* called with round_id = 1 and season = 2023, as run_queries calls it
C27_Witness ==
    /\ last.op = "get_draft_picks_by_round"
    /\ DOMAIN last.kwargs = {"round_id", "season"}
    /\ last.kwargs["round_id"] = 1 /\ last.kwargs["season"] = 2023
    /\ \A s \in Seasons : \E d \in draft_picks : d.season = s
    /\ last.raised = "TypeError"

\* without the season keyword the queries return, mixing the seasons
C27_UnfilteredOnly ==
    last.op \in QueryNames =>
        /\ last.raised = "" <=> DOMAIN last.kwargs \subseteq Parameters(last.op)
        /\ (last.op = "get_draft_picks_by_round" /\ last.kwargs = <<>>) =>
              {r.pick : r \in last.rows} = {d.id : d \in draft_picks}

\* C30: get_keeper_analysis returns exactly one row for each draft_picks row
\* with is_keeper = 1 and none for other picks, and the row's
\* fantasy_team_name is the name of the fantasy team whose internal id is
\* the pick's fantasy_team_id
C30_KeeperRows ==
    (last.op = "get_keeper_analysis" /\ last.raised = "") =>
        /\ \A d \in draft_picks :
              Cardinality({r \in last.rows : r.pick = d.id}) = IF d.is_keeper THEN 1 ELSE 0
        /\ \A r \in last.rows :
              \E d \in draft_picks, t \in fantasy_teams :
                  /\ d.id = r.pick /\ t.id = d.fantasy_team_id
                  /\ r.fantasy_team_name = t.name

\* fantasy teams of both seasons are stored, a keeper pick is stored, and
\* get_keeper_analysis has returned
C30_Witness ==
    /\ last.op = "get_keeper_analysis" /\ last.raised = ""
    /\ \A s \in Seasons : \E t \in fantasy_teams : t.season = s
    /\ \E d \in draft_picks : d.is_keeper
    /\ last.rows # {}

\* what get_keeper_analysis returns is the keeper picks joined on
\* espn_team_id: no non-keeper row, each keeper pick at least once
C30_KeeperRowsAsJoined ==
    (last.op = "get_keeper_analysis" /\ last.raised = "") =>
        /\ {r.pick : r \in last.rows} = {d.id : d \in {x \in draft_picks : x.is_keeper}}
        /\ \A r \in last.rows :
              \/ r.team = NULL /\ r.fantasy_team_name = NULL
              \/ \E d \in draft_picks, t \in fantasy_teams :
                    /\ d.id = r.pick /\ t.id = r.team
                    /\ t.espn_team_id = d.fantasy_team_id
                    /\ r.fantasy_team_name = t.name
----------------------------------------------------------------------------
(* The rows of the other seasons under a run for one season *)

\* the rows of the season-keyed tables that belong to another season than
\* `season`, with all their columns
OtherSeasons(tbl, season) ==
    [games         |-> {r \in tbl.games : r.season # season},
     fantasy_teams |-> {r \in tbl.fantasy_teams : r.season # season},
     players       |-> {r \in tbl.players : r.season # season},
     draft_picks   |-> {r \in tbl.draft_picks : r.season # season},
     rosters       |-> {r \in tbl.rosters : r.season # season}]

\* C28: at every step of a run for season S (teams and games, player upsert,
\* draft history, rosters with the score overwrite, the rank reconciliation
\* and the projected-rank attachment) every games, fantasy_teams, players,
\* draft_picks and rosters row of another season is what it was when the run
\* started, internal id, fantasy_score, ranks and projected ranks included
C28_OtherSeasonsUntouched ==
    pc # "idle" => OtherSeasons(Store, run.season) = OtherSeasons(before, run.season)

\* a forced run for 2024 has gone through all its steps, leaving players of
\* 2024 with a score, a rank and a projected rank, while the store held scored
\* and ranked players, picks, rosters, teams and games of 2023 from an earlier
\* run
C28_Witness ==
    /\ pc = "done" /\ run.season = ProjectedSeason /\ run.force /\ run.full
    /\ players # before.players /\ rosters # before.rosters
    /\ \E q \in before.players :
          q.season = 2023 /\ q.fantasy_score > 0 /\ q.overall_rank # NULL
    /\ \E q \in players :
          /\ q.season = ProjectedSeason /\ q.fantasy_score > 0
          /\ q.overall_rank # NULL /\ q.projected_overall_rank # NULL
    /\ \E d \in before.draft_picks : d.season = 2023
    /\ \E r \in before.rosters : r.season = 2023
    /\ \E t \in before.fantasy_teams : t.season = 2023
    /\ \E g \in before.games : g.season = 2023
----------------------------------------------------------------------------
(* load_draft_history after load_players_data, the picks carrying a round
   or none *)

\* calls of load_draft_history in one behaviour
MaxPickLoads == 2

\* pick i of a payload is for team i and takes external player 1, who is
\* stored by load_players_data, or 2, who is not; it carries roundId 1 or no
\* roundId (with it roundPickNumber and overallPickNumber)
RoundPickLists ==
    UNION {{[i \in 1..n |-> [id |-> i, playerId |-> f[i][1], teamId |-> i,
                             roundId |-> f[i][2], keeper |-> FALSE]] :
               f \in [1..n -> {1, 2} \X {1, NULL}]} : n \in 0..MaxPicks}

\* espn.get_draft_history(season): one snapshot listing no team, team 1, or
\* teams 1 and 2
RoundFetches ==
    {Fetched(<<[teams |-> ts, picks |-> ps]>>) :
        ts \in {<<>>, <<[id |-> 1, name |-> 1]>>,
                <<[id |-> 1, name |-> 1], [id |-> 2, name |-> 2]>>},
        ps \in RoundPickLists}

NextPicks ==
    \/ \E season \in Seasons : CallLoadPlayersData(season, FALSE)
    \/ \E season \in Seasons, fetch \in RoundFetches :
          /\ Calls("load_draft_history") < MaxPickLoads
          /\ CallLoadDraftHistoryFrom(season, fetch)

SpecPicks == InitTeams /\ [][NextPicks]_vars

\* the pick's playerId has a players row, and its teamId occurs in the team
\* list of the payload or was stored for the season before the call
ResolvesInCall(pick) ==
    /\ \E q \in players : q.espn_player_id = pick.playerId
    /\ \/ \E t \in FetchedTeams : t.id = pick.teamId
       \/ \E t \in before.fantasy_teams :
             t.season = last.season /\ t.espn_team_id = pick.teamId

\* the picks of the payload of the last load_draft_history call
FetchedPicks ==
    IF last.fetch.error \/ last.fetch.data = <<>> THEN {}
    ELSE {last.fetch.data[1].picks[k] : k \in DOMAIN last.fetch.data[1].picks}

\* C29: after load_draft_history for season S, every pick of the payload
\* whose playerId has a players row and whose teamId occurs in the payload's
\* team list or is already stored for S has a draft_picks row (S, pick id)
C29_ResolvedPicksStored ==
    (last.op = "load_draft_history" /\ ~last.raised) =>
        \A pick \in FetchedPicks :
            ResolvesInCall(pick) =>
                \E d \in draft_picks : d.season = last.season /\ d.espn_pick_id = pick.id

\* the payload lists team 1 for the first time and its pick 1 takes a stored
\* player for team 1 without carrying a round; no row (S, 1) is stored
C29_Witness ==
    /\ last.op = "load_draft_history" /\ ~last.raised
    /\ \E t \in fantasy_teams \ before.fantasy_teams : t.espn_team_id = 1
    /\ \E pick \in FetchedPicks :
          /\ pick.id = 1 /\ ResolvesInCall(pick) /\ pick.roundId = NULL
          /\ ~\E d \in draft_picks : d.season = last.season /\ d.espn_pick_id = 1

\* a pick that resolves and carries its round has its row, through the team
\* inserted earlier in the same call and the players inserted in the
\* preceding step; every new row belongs to such a pick
C29_CompletePicksStored ==
    (last.op = "load_draft_history" /\ ~last.raised) =>
        /\ \A pick \in FetchedPicks :
              (ResolvesInCall(pick) /\ pick.roundId # NULL) =>
                  \E d \in draft_picks : d.season = last.season /\ d.espn_pick_id = pick.id
        /\ \A d \in draft_picks \ before.draft_picks :
              \E pick \in FetchedPicks :
                  /\ ResolvesInCall(pick) /\ pick.roundId # NULL
                  /\ d.season = last.season /\ d.espn_pick_id = pick.id
        /\ before.draft_picks \subseteq draft_picks

====
